---- MODULE Spec2Model ----
(***************************************************************************)
(* Model of the image-med-ai-api service: the credential gate              *)
(* (AuthMiddleware), the controllers, the use-case layer and the           *)
(* repositories, as far as the authorization and tenancy-scoping           *)
(* properties depend on them.                                              *)
(*                                                                         *)
(* Strings that the code parses (URL paths, the Authorization header) are  *)
(* sequences of chunks: a chunk is a separator ("/" or " ") or a run of    *)
(* characters between separators, and "health-units" is the two chunks     *)
(* "health" and "-units", so that startswith / split / endswith work on    *)
(* the chunks exactly as they work on the characters.                      *)
(*                                                                         *)
(* Identifiers (UUIDs) are positive integers handed out in increasing      *)
(* order and never reused; NULL stands for None / SQL NULL.                *)
(***************************************************************************)
EXTENDS Integers, Sequences, FiniteSets, TLC

\* ---------------------------------------------------------------- bounds
MaxUsers  == 3
MaxUnits  == 1
MaxAtts   == 1
MaxTokens == 1

\* ------------------------------------------------------------- constants
NULL == 0

\* settings.API_KEY, settings.USER_EMAIL_ROOT, settings.USER_ROOT_PROFILE
API_KEY           == "key"
USER_EMAIL_ROOT   == "root@x"
USER_ROOT_PROFILE == "administrator"
USER_STATUS_ROOT  == "active"

valid_profiles == {"administrator", "professional"}

\* the models as they would be with "xray" accepted
valid_models_with_xray ==
    {"respiratory", "tuberculosis", "osteoporosis", "breast", "xray"}

valid_models   == {"respiratory", "tuberculosis", "osteoporosis", "breast"}

VARIABLES
    users,      \* table users:       id -> row
    units,      \* table health_units: id -> row
    atts,       \* table attendances: id -> row
    boxes,      \* table bounding_boxes: attendance id -> sequence of boxes
    nextUser,   \* ids handed out so far, per table
    nextUnit,
    nextAtt,
    tokens,     \* the claims of the tokens clients hold, by slot
    expired,    \* the slots whose token is past its validity window
    inflight,   \* the requests that read the database and have yet to write
    last        \* the last request the service handled, and its answer

vars == <<users, units, atts, boxes, nextUser, nextUnit, nextAtt,
          tokens, expired, inflight, last>>

dbvars == <<users, units, atts, boxes, nextUser, nextUnit, nextAtt>>

\* ------------------------------------------------------- string helpers
StartsWith(s, p) ==
    Len(p) <= Len(s) /\ SubSeq(s, 1, Len(p)) = p

EndsWith(s, p) ==
    Len(p) <= Len(s) /\ SubSeq(s, Len(s) - Len(p) + 1, Len(s)) = p

\* p in s (substring test)
Contains(s, p) ==
    \E i \in 1..(Len(s) + 1) :
        i + Len(p) - 1 <= Len(s) /\ SubSeq(s, i, i + Len(p) - 1) = p

RECURSIVE SplitFrom(_, _, _, _)
SplitFrom(s, sep, i, cur) ==
    IF i > Len(s) THEN <<cur>>
    ELSE IF s[i] = sep THEN <<cur>> \o SplitFrom(s, sep, i + 1, <<>>)
    ELSE SplitFrom(s, sep, i + 1, Append(cur, s[i]))

\* str.split(sep): the parts, each a sequence of chunks
Split(s, sep) == SplitFrom(s, sep, 1, <<>>)

\* str(uuid) and uuid.UUID(str): an identifier and its text
IdText(id) == ToString(id)

\* ------------------------------------------------------------ the routes
P_api == <<"/", "api">>
Path_health          == P_api \o <<"/", "health">>
Path_ensure_root     == P_api \o <<"/", "ensure-root">>
Path_docs            == P_api \o <<"/", "docs">>
Path_users           == P_api \o <<"/", "users", "/">>
Path_login           == P_api \o <<"/", "users", "/", "login">>
Path_user(id)        == P_api \o <<"/", "users", "/", IdText(id)>>
Path_health_units    == P_api \o <<"/", "health", "-units", "/">>
Path_health_unit(id) == P_api \o <<"/", "health", "-units", "/", IdText(id)>>
Path_attendances     == P_api \o <<"/", "attendances", "/">>
Path_attendance(id)  == P_api \o <<"/", "attendances", "/", IdText(id)>>
Path_statistics      == P_api \o <<"/", "attendances", "/", "statistics", "/", "summary">>

\* ------------------------------------------------------------ the claims
NoClaims == [user_id |-> NULL, profile |-> "none", admin_id |-> NULL]

\* TokenAdapter.create_token: the claims a token carries
create_token(id, profile, admin_id) ==
    [user_id |-> id, profile |-> profile, admin_id |-> admin_id]

\* The service keeps no record of the tokens it signs; the model keeps the
\* claims of the tokens that clients hold, MaxTokens at a time: slot k holds
\* the claims of the live token whose text is IdText(k), NoClaims when there
\* is none, and k is in expired when the last token of the slot ran out of
\* its validity window.
\* TokenAdapter.decode_token on the text of a token
decode_token(tok) ==
    IF \E k \in 1..MaxTokens : tok = <<IdText(k)>>
    THEN LET k == CHOOSE k \in 1..MaxTokens : tok = <<IdText(k)>>
         IN  IF k \in expired
             THEN [kind |-> "expired", claims |-> NoClaims]
             ELSE IF tokens[k] = NoClaims
             THEN [kind |-> "invalid", claims |-> NoClaims]
             ELSE [kind |-> "ok", claims |-> tokens[k]]
    ELSE [kind |-> "invalid", claims |-> NoClaims]

\* ---------------------------------------------------- the credential gate
public_paths == {
    P_api \o <<"/", "auth", "/", "login">>,
    P_api \o <<"/", "health">>,
    P_api \o <<"/", "docs">>,
    P_api \o <<"/", "openapi.json">> }

admin_routes == {
    P_api \o <<"/", "admin", "/">>,
    P_api \o <<"/", "health", "-units", "/", "create">>,
    P_api \o <<"/", "users", "/", "professionals", "/", "create">>,
    P_api \o <<"/", "statistics", "/">> }

professional_routes == {
    P_api \o <<"/", "attendances", "/", "create">>,
    P_api \o <<"/", "diagnoses", "/">> }

is_public_path(path)         == \E p \in public_paths : StartsWith(path, p)
is_admin_route(path)        == \E r \in admin_routes : StartsWith(path, r)
is_professional_route(path) == \E r \in professional_routes : StartsWith(path, r)

is_health_unit_route(path) ==
    /\ Contains(path, P_api \o <<"/", "health", "-units", "/">>)
    /\ ~EndsWith(path, <<"/", "health", "-units", "/">>)

\* A terminal state of the gate: status 0 is Admitted, anything else Rejected;
\* attached tells whether request.state.user was set, user holds the claims
Rejected(code, reason) ==
    [status |-> code, reason |-> reason, attached |-> FALSE, user |-> NoClaims]
Admitted(attached, claims) ==
    [status |-> 0, reason |-> "Admitted", attached |-> attached, user |-> claims]

\* 0 when the key is accepted, else the status of the HTTPException
verify_api_key(api_key) ==
    IF api_key = "" THEN Rejected(400, "MissingApiKey")
    ELSE IF api_key # API_KEY THEN Rejected(403, "InvalidApiKey")
    ELSE Admitted(FALSE, NoClaims)

\* the token text taken from the header: <<ok, text>>
extract_token(token_value) ==
    IF StartsWith(token_value, <<"Bearer", " ">>)
    THEN LET parts == Split(token_value, " ")
         IN  IF Len(parts) < 2 THEN [ok |-> FALSE, text |-> <<>>]
             ELSE [ok |-> TRUE, text |-> parts[2]]
    ELSE [ok |-> TRUE, text |-> token_value]

\* verify_token as it would be with the expiry of the token not enforced
verify_token_ignoring_expiry(token_value) ==
    IF token_value = <<>> THEN Rejected(401, "MissingToken")
    ELSE LET t == extract_token(token_value)
         IN  IF ~t.ok THEN Rejected(401, "MalformedHeader")
             ELSE LET d == decode_token(t.text)
                  IN  CASE d.kind = "invalid" -> Rejected(401, "Invalid token")
                        [] OTHER -> Admitted(TRUE, d.claims)

verify_token(token_value) ==
    IF token_value = <<>> THEN Rejected(401, "MissingToken")
    ELSE LET t == extract_token(token_value)
         IN  IF ~t.ok THEN Rejected(401, "MalformedHeader")
             ELSE LET d == decode_token(t.text)
                  IN  CASE d.kind = "expired" -> Rejected(401, "Token has expired")
                        [] d.kind = "invalid" -> Rejected(401, "Invalid token")
                        [] OTHER -> Admitted(TRUE, d.claims)

verify_admin_access(token_data)        == token_data.profile = "administrator"
verify_professional_access(token_data) == token_data.profile = "professional"

\* the stub of the source: it never rejects
verify_health_unit_access(token_data, health_unit_id) == TRUE

\* the part after "health-units" in the path, <<>> when there is none
extract_health_unit_id(path) ==
    LET parts == Split(path, "/")
        hits  == {i \in 1..Len(parts) :
                     parts[i] = <<"health", "-units">> /\ i + 1 <= Len(parts)}
    IN  IF hits = {} THEN <<>>
        ELSE parts[(CHOOSE i \in hits : \A j \in hits : i <= j) + 1]

\* verify_request as it would be with the token verified before the test
\* of the public paths
verify_request_token_first(path, api_key, token_value) ==
    LET k == verify_api_key(api_key)
        t == verify_token(token_value)
    IN  IF k.status # 0 THEN k
        ELSE IF t.status # 0 THEN t
        ELSE IF is_public_path(path) THEN Admitted(FALSE, NoClaims)
        ELSE IF is_admin_route(path) /\ ~verify_admin_access(t.user)
             THEN Rejected(403, "AdminOnly")
        ELSE IF is_professional_route(path) /\ ~verify_professional_access(t.user)
             THEN Rejected(403, "ProfessionalOnly")
        ELSE Admitted(TRUE, t.user)

verify_request(path, api_key, token_value) ==
    LET k == verify_api_key(api_key)
    IN  IF k.status # 0 THEN k
        ELSE IF is_public_path(path) THEN Admitted(FALSE, NoClaims)
        ELSE LET t == verify_token(token_value)
             IN  IF t.status # 0 THEN t
                 ELSE IF is_admin_route(path) /\ ~verify_admin_access(t.user)
                      THEN Rejected(403, "AdminOnly")
                 ELSE IF is_professional_route(path)
                         /\ ~verify_professional_access(t.user)
                      THEN Rejected(403, "ProfessionalOnly")
                 ELSE IF /\ is_health_unit_route(path)
                         /\ extract_health_unit_id(path) # <<>>
                         /\ ~verify_health_unit_access(t.user, extract_health_unit_id(path))
                      THEN Rejected(403, "HealthUnitAccess")
                 ELSE Admitted(TRUE, t.user)

\* ----------------------------------------------------------- option type
\* a payload field that was not sent (pydantic exclude_unset) is None
None    == <<>>
Some(v) == <<v>>
IsSet(o) == o # <<>>
Get(o)   == o[1]

\* ------------------------------------------------------- user repository
\* the row of the table users; full_name and created_at never decide anything
UserRow(email, password_hash, profile, admin_id, status) ==
    [email |-> email, password_hash |-> password_hash, profile |-> profile,
     admin_id |-> admin_id, status |-> status]

\* SELECT * FROM users WHERE id = $1: the id when a row exists, else NULL
Repo_get_user_by_id(id) ==
    IF id \in DOMAIN users THEN id ELSE NULL

\* SELECT * FROM users WHERE email = $1 (fetchrow: the first row), else NULL
Repo_get_user_by_email(email) ==
    LET hits == {u \in DOMAIN users : users[u].email = email}
    IN  IF hits = {} THEN NULL ELSE CHOOSE u \in hits : \A v \in hits : u <= v

\* the table users declares email unique: a statement that would leave two
\* rows with one email raises and writes nothing
users_email_unique(table) ==
    \A u, v \in DOMAIN table : table[u].email = table[v].email => u = v

\* INSERT INTO users ... RETURNING id: the table after the insert
Repo_add_user(row) ==
    [u \in DOMAIN users \cup {nextUser + 1} |->
        IF u = nextUser + 1 THEN row ELSE users[u]]

\* the insert raises, and add_user answers added: False, when the table
\* refuses the row
Repo_add_user_ok(row) == users_email_unique(Repo_add_user(row))

\* UPDATE users SET full_name, email, profile, admin_id, status WHERE id:
\* user_data["full_name"|"email"|"profile"] raise KeyError when the payload
\* left them out (updated: False); admin_id and status fall back to NULL and
\* "active"
Repo_update_user(id, data) ==
    [users EXCEPT ![id] =
        [@ EXCEPT !.email    = Get(data.email),
                  !.profile  = Get(data.profile),
                  !.admin_id = IF IsSet(data.admin_id) THEN Get(data.admin_id) ELSE NULL,
                  !.status   = IF IsSet(data.status) THEN Get(data.status) ELSE "active"]]

\* the statement raises and the function answers updated: False when a key is
\* missing, when no row has the id, or when the table refuses the new row
Repo_update_user_ok(id, data) ==
    /\ data.full_name
    /\ IsSet(data.email)
    /\ IsSet(data.profile)
    /\ id \in DOMAIN users
    /\ users_email_unique(Repo_update_user(id, data))

\* ------------------------------------------------------------- adapters
hash_password(password) == <<"hash", password>>
verify_password(password, password_hash) == password_hash = hash_password(password)
is_email_valid(email) == email # "not-an-email"

\* --------------------------------------------------------- user use-cases
\* add_user as it would be without the look-up of the email
Svc_add_user_status_unchecked(p) ==
    IF ~p.full_name \/ p.email = "" \/ p.password = "" \/ p.profile = "" THEN 400
    ELSE IF p.profile \notin valid_profiles THEN 422
    ELSE IF p.status \notin {"active", "inactive"} THEN 422
    ELSE IF ~is_email_valid(p.email) THEN 422
    ELSE 201

\* the status code UserService.add_user answers with
Svc_add_user_status(p) ==
    IF ~p.full_name \/ p.email = "" \/ p.password = "" \/ p.profile = "" THEN 400
    ELSE IF p.profile \notin valid_profiles THEN 422
    ELSE IF p.status \notin {"active", "inactive"} THEN 422
    ELSE IF ~is_email_valid(p.email) THEN 422
    ELSE IF Repo_get_user_by_email(p.email) # NULL THEN 409
    ELSE 201

Svc_add_user_table(p) ==
    IF Svc_add_user_status(p) = 201
    THEN Repo_add_user(UserRow(p.email, hash_password(p.password), p.profile,
                               p.admin_id, p.status))
    ELSE users

\* login_user as it would be with the password compared before the status
Svc_login_user_status_password_first(email, password) ==
    LET u == Repo_get_user_by_email(email)
    IN  IF u = NULL THEN 404
        ELSE IF ~verify_password(password, users[u].password_hash) THEN 401
        ELSE IF users[u].status # "active" THEN 403
        ELSE 200

\* the status code UserService.login_user answers with
Svc_login_user_status(email, password) ==
    LET u == Repo_get_user_by_email(email)
    IN  IF u = NULL THEN 404
        ELSE IF users[u].status # "active" THEN 403
        ELSE IF ~verify_password(password, users[u].password_hash) THEN 401
        ELSE 200

\* the claims of the token it issues
Svc_login_user_token(email) ==
    LET u == Repo_get_user_by_email(email)
    IN  create_token(u, users[u].profile, users[u].admin_id)

\* the status code UserService.update_user answers with
Svc_update_user_status(id, data) ==
    IF Repo_get_user_by_id(id) = NULL THEN 404
    ELSE IF IsSet(data.email) /\ ~is_email_valid(Get(data.email)) THEN 422
    ELSE IF IsSet(data.profile) /\ Get(data.profile) \notin valid_profiles THEN 422
    ELSE IF IsSet(data.status) /\ Get(data.status) \notin {"active", "inactive"} THEN 422
    ELSE IF ~Repo_update_user_ok(id, data) THEN 500
    ELSE 200

Svc_update_user_table(id, data) ==
    IF Svc_update_user_status(id, data) = 200 THEN Repo_update_user(id, data) ELSE users

\* ensure_root_user: "exists" (the soft 403 answer), "invalid" (HTTP 400) or
\* "created"
ensure_root_user_result ==
    IF Repo_get_user_by_email(USER_EMAIL_ROOT) # NULL THEN "exists"
    ELSE IF USER_ROOT_PROFILE \notin valid_profiles THEN "invalid"
    ELSE "created"

\* ------------------------------------------------ health-unit repository
UnitRow(name, admin_id, status) ==
    [name |-> name, admin_id |-> admin_id, status |-> status]

\* the id when a row exists, else NULL
Repo_get_health_unit_by_id(id) ==
    IF id \in DOMAIN units THEN id ELSE NULL

\* the units of one administrator
Repo_get_health_units(admin_id) ==
    {h \in DOMAIN units : units[h].admin_id = admin_id}

Repo_add_health_unit(row) ==
    [h \in DOMAIN units \cup {nextUnit + 1} |->
        IF h = nextUnit + 1 THEN row ELSE units[h]]

Repo_update_health_unit(id, data) ==
    [units EXCEPT ![id] =
        [@ EXCEPT !.name   = IF IsSet(data.name) THEN Get(data.name) ELSE @,
                  !.status = IF IsSet(data.status) THEN Get(data.status) ELSE @]]

\* a unit that attendances refer to is not deleted ("reason")
Repo_delete_health_unit_ok(id) ==
    \A a \in DOMAIN atts : atts[a].health_unit_id # id

Repo_delete_health_unit(id) ==
    [h \in DOMAIN units \ {id} |-> units[h]]

\* --------------------------------------------------- health-unit use-cases
Svc_add_health_unit_status(p, admin_id) ==
    IF Repo_get_user_by_id(admin_id) = NULL THEN 404
    ELSE IF users[admin_id].profile # "administrator" THEN 403
    ELSE IF p.name = "" THEN 400
    ELSE IF p.status \notin {"active", "inactive"} THEN 422
    ELSE 201

Svc_add_health_unit_table(p, admin_id) ==
    IF Svc_add_health_unit_status(p, admin_id) = 201
    THEN Repo_add_health_unit(UnitRow(p.name, admin_id, p.status))
    ELSE units

Svc_get_health_units_status(admin_id) ==
    IF admin_id # NULL /\ Repo_get_user_by_id(admin_id) = NULL THEN 404 ELSE 200

Svc_get_health_unit_by_id_status(id) ==
    IF Repo_get_health_unit_by_id(id) = NULL THEN 404 ELSE 200

Svc_update_health_unit_status(id, data) ==
    IF Repo_get_health_unit_by_id(id) = NULL THEN 404
    ELSE IF IsSet(data.name) /\ Get(data.name) = "" THEN 400
    ELSE IF IsSet(data.status) /\ Get(data.status) \notin {"active", "inactive"} THEN 422
    ELSE 200

Svc_update_health_unit_table(id, data) ==
    IF Svc_update_health_unit_status(id, data) = 200
    THEN Repo_update_health_unit(id, data) ELSE units

Svc_delete_health_unit_status(id) ==
    IF Repo_get_health_unit_by_id(id) = NULL THEN 404
    ELSE IF ~Repo_delete_health_unit_ok(id) THEN 409
    ELSE 200

Svc_delete_health_unit_table(id) ==
    IF Svc_delete_health_unit_status(id) = 200
    THEN Repo_delete_health_unit(id) ELSE units

\* ------------------------------------------------- attendance repository
AttRow(professional_id, health_unit_id, admin_id, model_used, model_result) ==
    [professional_id |-> professional_id, health_unit_id |-> health_unit_id,
     admin_id |-> admin_id, model_used |-> model_used, model_result |-> model_result]

BoxRow(attendance_id, box) ==
    [attendance_id |-> attendance_id, box |-> box]

RECURSIVE BoxRows(_, _)
BoxRows(attendance_id, bs) ==
    IF bs = <<>> THEN <<>>
    ELSE <<BoxRow(attendance_id, Head(bs))>> \o BoxRows(attendance_id, Tail(bs))

RECURSIVE BoxesOf(_, _)
\* SELECT * FROM bounding_boxes WHERE attendance_id = $1
BoxesOf(table, attendance_id) ==
    IF table = <<>> THEN <<>>
    ELSE (IF Head(table).attendance_id = attendance_id
          THEN <<Head(table).box>> ELSE <<>>) \o BoxesOf(Tail(table), attendance_id)

RECURSIVE BoxesWithout(_, _)
\* DELETE FROM bounding_boxes WHERE attendance_id = $1
BoxesWithout(table, attendance_id) ==
    IF table = <<>> THEN <<>>
    ELSE (IF Head(table).attendance_id = attendance_id
          THEN <<>> ELSE <<Head(table)>>) \o BoxesWithout(Tail(table), attendance_id)

\* the id when a row exists, else NULL
Repo_get_attendance_by_id(id) ==
    IF id \in DOMAIN atts THEN id ELSE NULL

\* the bounding_boxes key of the fetched attendance: only breast rows carry it
Repo_attendance_boxes(id) ==
    IF atts[id].model_used = "breast" THEN BoxesOf(boxes, id) ELSE <<>>

\* SELECT * FROM attendances WHERE 1=1 [AND admin_id] [AND health_unit_id]
\* [AND professional_id] [AND model_used]: a filter that is None (or NULL) is
\* left out of the query
Repo_get_attendances(admin_id, health_unit_id, professional_id, model_used) ==
    {a \in DOMAIN atts :
        /\ admin_id # NULL => atts[a].admin_id = admin_id
        /\ health_unit_id # NULL => atts[a].health_unit_id = health_unit_id
        /\ professional_id # NULL => atts[a].professional_id = professional_id
        /\ model_used # "" => atts[a].model_used = model_used}

\* INSERT INTO attendances ... RETURNING id, then the boxes of a breast record
Repo_add_attendance_atts(d) ==
    [a \in DOMAIN atts \cup {nextAtt + 1} |->
        IF a = nextAtt + 1
        THEN AttRow(d.professional_id, d.health_unit_id, d.admin_id,
                    d.model_used, d.model_result)
        ELSE atts[a]]

Repo_add_attendance_boxes(d) ==
    IF d.model_used = "breast" /\ d.bounding_boxes # <<>>
    THEN boxes \o BoxRows(nextAtt + 1, d.bounding_boxes)
    ELSE boxes

\* UPDATE attendances SET <the fields that are not None> WHERE id: with no
\* such field nothing is written (updated: False); model_used is no column
\* of the UPDATE
Repo_update_attendance_ok(id, d) ==
    /\ id \in DOMAIN atts
    /\ \/ IsSet(d.professional_id) \/ IsSet(d.health_unit_id) \/ IsSet(d.admin_id)
       \/ IsSet(d.model_result)

Repo_update_attendance_atts(id, d) ==
    IF ~Repo_update_attendance_ok(id, d) THEN atts
    ELSE [atts EXCEPT ![id] =
            [@ EXCEPT
               !.professional_id = IF IsSet(d.professional_id) THEN Get(d.professional_id) ELSE @,
               !.health_unit_id  = IF IsSet(d.health_unit_id) THEN Get(d.health_unit_id) ELSE @,
               !.admin_id        = IF IsSet(d.admin_id) THEN Get(d.admin_id) ELSE @,
               !.model_result    = IF IsSet(d.model_result) THEN Get(d.model_result) ELSE @]]

Repo_update_attendance_boxes(id, d) ==
    IF /\ Repo_update_attendance_ok(id, d)
       /\ atts[id].model_used = "breast"
       /\ IsSet(d.bounding_boxes)
    THEN BoxesWithout(boxes, id) \o BoxRows(id, Get(d.bounding_boxes))
    ELSE boxes

\* DELETE FROM bounding_boxes WHERE attendance_id; DELETE FROM attendances
Repo_delete_attendance_atts(id) ==
    [a \in DOMAIN atts \ {id} |-> atts[a]]

\* a delete that leaves the bounding_boxes rows of the attendance behind
Repo_delete_attendance_boxes_kept(id) == boxes

Repo_delete_attendance_boxes(id) == BoxesWithout(boxes, id)

\* ---------------------------------------------------- attendance use-cases
Svc_add_attendance_status(p, professional_id) ==
    IF Repo_get_user_by_id(professional_id) = NULL THEN 404
    ELSE IF users[professional_id].profile # "professional" THEN 403
    ELSE IF users[professional_id].admin_id = NULL THEN 400
    ELSE IF p.health_unit_id = NULL THEN 400
    ELSE IF Repo_get_health_unit_by_id(p.health_unit_id) = NULL THEN 404
    ELSE IF units[p.health_unit_id].admin_id # users[professional_id].admin_id THEN 403
    ELSE IF p.model_used \notin valid_models THEN 422
    ELSE IF p.image_base64 = "" THEN 400
    ELSE 201

\* attendance_data as it would be with the payload's professional_id and
\* admin_id kept
Svc_add_attendance_data_from_payload(p, professional_id) ==
    [professional_id |-> p.professional_id,
     health_unit_id  |-> p.health_unit_id,
     admin_id        |-> p.admin_id,
     model_used      |-> p.model_used,
     model_result    |-> p.model_result,
     bounding_boxes  |-> p.bounding_boxes]

\* attendance_data with professional_id and admin_id attached
Svc_add_attendance_data(p, professional_id) ==
    [professional_id |-> professional_id,
     health_unit_id  |-> p.health_unit_id,
     admin_id        |-> users[professional_id].admin_id,
     model_used      |-> p.model_used,
     model_result    |-> p.model_result,
     bounding_boxes  |-> p.bounding_boxes]

Svc_add_attendance_atts(p, professional_id) ==
    IF Svc_add_attendance_status(p, professional_id) = 201
    THEN Repo_add_attendance_atts(Svc_add_attendance_data(p, professional_id))
    ELSE atts

Svc_add_attendance_boxes(p, professional_id) ==
    IF Svc_add_attendance_status(p, professional_id) = 201
    THEN Repo_add_attendance_boxes(Svc_add_attendance_data(p, professional_id))
    ELSE boxes

Svc_get_attendances_status(model_used) ==
    IF model_used # "" /\ model_used \notin valid_models THEN 422 ELSE 200

Svc_get_attendance_by_id_status(id) ==
    IF Repo_get_attendance_by_id(id) = NULL THEN 404 ELSE 200

\* the permission test of update_attendance and delete_attendance
Svc_may_mutate_attendance(id, professional_id) ==
    \/ professional_id = atts[id].professional_id
    \/ users[professional_id].profile = "administrator"

Svc_update_attendance_status(id, d, professional_id) ==
    IF Repo_get_attendance_by_id(id) = NULL THEN 404
    ELSE IF Repo_get_user_by_id(professional_id) = NULL THEN 404
    ELSE IF ~Svc_may_mutate_attendance(id, professional_id) THEN 403
    ELSE IF IsSet(d.model_used) /\ Get(d.model_used) \notin valid_models THEN 422
    ELSE IF /\ IsSet(d.bounding_boxes)
            /\ atts[id].model_used # "breast"
            /\ ~IsSet(d.model_used) THEN 400
    ELSE IF ~Repo_update_attendance_ok(id, d) THEN 500
    ELSE 200

Svc_update_attendance_atts(id, d, professional_id) ==
    IF Svc_update_attendance_status(id, d, professional_id) = 200
    THEN Repo_update_attendance_atts(id, d) ELSE atts

Svc_update_attendance_boxes(id, d, professional_id) ==
    IF Svc_update_attendance_status(id, d, professional_id) = 200
    THEN Repo_update_attendance_boxes(id, d) ELSE boxes

Svc_delete_attendance_status(id, professional_id) ==
    IF Repo_get_attendance_by_id(id) = NULL THEN 404
    ELSE IF Repo_get_user_by_id(professional_id) = NULL THEN 404
    ELSE IF ~Svc_may_mutate_attendance(id, professional_id) THEN 403
    ELSE 200

Svc_delete_attendance_atts(id, professional_id) ==
    IF Svc_delete_attendance_status(id, professional_id) = 200
    THEN Repo_delete_attendance_atts(id) ELSE atts

Svc_delete_attendance_boxes(id, professional_id) ==
    IF Svc_delete_attendance_status(id, professional_id) = 200
    THEN Repo_delete_attendance_boxes(id) ELSE boxes

Svc_get_statistics_status(admin_id, period) ==
    IF Repo_get_user_by_id(admin_id) = NULL THEN 404
    ELSE IF period \notin {"day", "week", "month", "year"} THEN 422
    ELSE 200

\* ------------------------------------------------------------- responses
\* status: the status_code of the answer's payload; http: the status of the
\* HTTP response; invoked: whether the use-case was called; ids: the ids of
\* the records the answer discloses
Resp(status, http, invoked, ids) ==
    [status |-> status, http |-> http, invoked |-> invoked, ids |-> ids]

\* verify_request raised: the HTTPException is the answer
GateRejects(g) == Resp(g.status, g.status, FALSE, {})

\* request.state.user was never set: reading it raises AttributeError, which
\* the logging middleware of main.py turns into a 500
NoStateUser == Resp(500, 500, FALSE, {})

\* a controller's own refusal: a dict returned under the route's status
Soft(code, route_http) == Resp(code, route_http, FALSE, {})

\* the use-case's answer: raise_http_error sets the HTTP status, a returned
\* dict goes out under the route's status
FromService(status, route_http, ids) ==
    Resp(status, IF status >= 400 THEN status ELSE route_http, TRUE, ids)

\* ------------------------------------------------------------ controllers
\* Each controller takes the terminal state g of the gate it ran first.
Ctl_add_user(g, p) ==
    IF g.status # 0 THEN GateRejects(g)
    ELSE IF ~g.attached THEN NoStateUser
    ELSE IF g.user.profile # "administrator" THEN Soft(403, 201)
    ELSE FromService(Svc_add_user_status(p), 201, {})

\* login runs _verify_api_key only
Ctl_login_user(api_key, email, password) ==
    IF verify_api_key(api_key).status # 0 THEN GateRejects(verify_api_key(api_key))
    ELSE FromService(Svc_login_user_status(email, password), 200, {})

Ctl_update_user(g, id, data) ==
    IF g.status # 0 THEN GateRejects(g)
    ELSE IF ~g.attached THEN NoStateUser
    ELSE IF id # g.user.user_id /\ g.user.profile # "administrator" THEN Soft(403, 200)
    ELSE FromService(Svc_update_user_status(id, data), 200, {})

Ctl_add_health_unit(g, p) ==
    IF g.status # 0 THEN GateRejects(g)
    ELSE IF ~g.attached THEN NoStateUser
    ELSE IF g.user.profile # "administrator" THEN Soft(403, 201)
    ELSE FromService(Svc_add_health_unit_status(p, g.user.user_id), 201, {})

Ctl_get_health_units(g) ==
    IF g.status # 0 THEN GateRejects(g)
    ELSE IF ~g.attached THEN NoStateUser
    ELSE LET admin_id == IF g.user.profile = "administrator"
                         THEN g.user.user_id ELSE g.user.admin_id
         IN  IF admin_id = NULL THEN Soft(403, 200)
             ELSE FromService(Svc_get_health_units_status(admin_id), 200,
                      IF Svc_get_health_units_status(admin_id) = 200
                      THEN Repo_get_health_units(admin_id) ELSE {})

Ctl_get_health_unit_by_id(g, id) ==
    IF g.status # 0 THEN GateRejects(g)
    ELSE IF ~g.attached THEN NoStateUser
    ELSE FromService(Svc_get_health_unit_by_id_status(id), 200,
             IF Svc_get_health_unit_by_id_status(id) = 200 THEN {id} ELSE {})

Ctl_update_health_unit(g, id, data) ==
    IF g.status # 0 THEN GateRejects(g)
    ELSE IF ~g.attached THEN NoStateUser
    ELSE IF g.user.profile # "administrator" THEN Soft(403, 200)
    ELSE FromService(Svc_update_health_unit_status(id, data), 200, {})

Ctl_delete_health_unit(g, id) ==
    IF g.status # 0 THEN GateRejects(g)
    ELSE IF ~g.attached THEN NoStateUser
    ELSE IF g.user.profile # "administrator" THEN Soft(403, 200)
    ELSE FromService(Svc_delete_health_unit_status(id), 200, {})

Ctl_add_attendance(g, p) ==
    IF g.status # 0 THEN GateRejects(g)
    ELSE IF ~g.attached THEN NoStateUser
    ELSE IF g.user.profile # "professional" THEN Soft(403, 201)
    ELSE FromService(Svc_add_attendance_status(p, g.user.user_id), 201, {})

\* the filter pair the list is queried with
Ctl_list_scope(user) ==
    IF user.profile = "administrator"
    THEN [admin_id |-> user.user_id, professional_id |-> NULL]
    ELSE [admin_id |-> user.admin_id, professional_id |-> user.user_id]

Ctl_get_attendances(g, health_unit_id, model_used) ==
    IF g.status # 0 THEN GateRejects(g)
    ELSE IF ~g.attached THEN NoStateUser
    ELSE LET sc == Ctl_list_scope(g.user)
         IN  FromService(Svc_get_attendances_status(model_used), 200,
                 IF Svc_get_attendances_status(model_used) = 200
                 THEN Repo_get_attendances(sc.admin_id, health_unit_id,
                                           sc.professional_id, model_used)
                 ELSE {})

Ctl_get_attendance_by_id(g, id) ==
    IF g.status # 0 THEN GateRejects(g)
    ELSE IF ~g.attached THEN NoStateUser
    ELSE FromService(Svc_get_attendance_by_id_status(id), 200,
             IF Svc_get_attendance_by_id_status(id) = 200 THEN {id} ELSE {})

Ctl_update_attendance(g, id, d) ==
    IF g.status # 0 THEN GateRejects(g)
    ELSE IF ~g.attached THEN NoStateUser
    ELSE FromService(Svc_update_attendance_status(id, d, g.user.user_id), 200, {})

Ctl_delete_attendance(g, id) ==
    IF g.status # 0 THEN GateRejects(g)
    ELSE IF ~g.attached THEN NoStateUser
    ELSE FromService(Svc_delete_attendance_status(id, g.user.user_id), 200, {})

Ctl_get_statistics(g, period) ==
    IF g.status # 0 THEN GateRejects(g)
    ELSE IF ~g.attached THEN NoStateUser
    ELSE IF g.user.profile # "administrator" THEN Soft(403, 200)
    ELSE FromService(Svc_get_statistics_status(g.user.user_id, period), 200, {})

\* ------------------------------------------------------------ the inputs
\* the Authorization header a client sends with the token of slot k
Bearer(k) == <<"Bearer", " ", IdText(k)>>

\* the slots that hold a live token
TokenIds == {k \in 1..MaxTokens : tokens[k] # NoClaims}

\* the e-mail address a new user is given: one per id
EmailOf(n) == "user" \o ToString(n) \o "@x"

Administrators == {u \in DOMAIN users : users[u].profile = "administrator"}
Professionals  == {u \in DOMAIN users : users[u].profile = "professional"}

\* POST /api/users/ payloads: a fresh or a taken address, the two profiles and
\* an unknown one, no administrator or an existing one
CreateUserInputs ==
    [full_name : {TRUE},
     email     : {EmailOf(nextUser + 1), USER_EMAIL_ROOT},
     password  : {"pw"},
     profile   : valid_profiles \cup {"nurse"},
     admin_id  : {NULL} \cup Administrators,
     status    : {"active"}]

\* the password each user was created with
PasswordOf(u) == IF users[u].email = USER_EMAIL_ROOT THEN "rootpw" ELSE "pw"

\* PUT /api/users/{id} payloads that reassign the user: the row as it is with
\* another admin_id, or with admin_id left out
UpdateUserInputs(id) ==
    [full_name : {TRUE},
     email     : {Some(users[id].email)},
     profile   : {Some(users[id].profile)},
     admin_id  : {None} \cup {Some(a) : a \in Administrators},
     status    : {None}]

CreateHealthUnitInputs ==
    [name : {"unit"}, status : {"active"}]

UpdateHealthUnitInputs ==
    [name : {Some("renamed")}, status : {None}]

Box1 == [x |-> 1, y |-> 1, width |-> 2, height |-> 2]

CreateAttendanceInputs ==
    [health_unit_id : 1..MaxUnits,
     model_used     : {"breast", "respiratory", "xray"},
     model_result   : {"r1"},
     image_base64   : {"img"},
     bounding_boxes : {<<Box1>>}]

UpdateAttendanceInputs ==
    [professional_id : {None},
     health_unit_id  : {None},
     admin_id        : {None},
     model_used      : {None},
     model_result    : {Some("r2")},
     bounding_boxes  : {None, Some(<<>>)}]

\* ------------------------------------------------------------ the actions
\* a handler that runs no gate
NoGate == [status |-> 0, reason |-> "NoGate", attached |-> FALSE, user |-> NoClaims]

\* the record of a request: the operation and its path, the two credential
\* headers, the record it addresses, the terminal state of the gate and the
\* answer
Last(op, path, api_key, auth, target, g, r) ==
    [op |-> op, path |-> path, api_key |-> api_key, auth |-> auth,
     target |-> target, gate |-> g, resp |-> r]

\* GET /api/health: the handler runs no gate and reads nothing
HealthCheck(api_key, auth) ==
    /\ last' = Last("health_check", Path_health, api_key, auth, 0, NoGate, Resp(200, 200, FALSE, {}))
    /\ UNCHANGED <<dbvars, tokens, expired, inflight>>

\* POST /api/ensure-root: the handler calls ensure_root_user and nothing else
EnsureRoot(api_key, auth) ==
    LET res == ensure_root_user_result
    IN  /\ nextUser < MaxUsers \/ res # "created"
        /\ users' = IF res = "created"
                    THEN Repo_add_user(UserRow(USER_EMAIL_ROOT,
                             hash_password("rootpw"), USER_ROOT_PROFILE, NULL,
                             USER_STATUS_ROOT))
                    ELSE users
        /\ nextUser' = IF res = "created" THEN nextUser + 1 ELSE nextUser
        /\ last' = Last("ensure_root", Path_ensure_root, api_key, auth, 0, NoGate,
                        CASE res = "exists"  -> Resp(403, 200, TRUE, {})
                          [] res = "invalid" -> Resp(400, 400, TRUE, {})
                          [] OTHER           -> Resp(200, 200, TRUE, {}))
        /\ UNCHANGED <<units, atts, boxes, nextUnit, nextAtt, tokens, expired, inflight>>

\* POST /api/users/
AddUser(api_key, auth, p) ==
    LET g == verify_request(Path_users, api_key, auth)
        r == Ctl_add_user(g, p)
    IN  /\ nextUser < MaxUsers
        /\ users' = IF r.invoked THEN Svc_add_user_table(p) ELSE users
        /\ nextUser' = IF r.invoked /\ r.status = 201 THEN nextUser + 1 ELSE nextUser
        /\ last' = Last("add_user", Path_users, api_key, auth, 0, g, r)
        /\ UNCHANGED <<units, atts, boxes, nextUnit, nextAtt, tokens, expired, inflight>>

\* the record of a login request: the record of a request and the two fields
\* of its body; target is the user the address resolves to
LoginLast(api_key, email, password, g, r) ==
    [op |-> "login", path |-> Path_login, api_key |-> api_key, auth |-> <<>>,
     target |-> Repo_get_user_by_email(email), gate |-> g, resp |-> r,
     email |-> email, password |-> password]

\* POST /api/users/login: the client keeps the token in its slot k, and the
\* token that was there is not presented again
Login(api_key, k, email, password) ==
    LET g == verify_api_key(api_key)
        r == Ctl_login_user(api_key, email, password)
    IN  /\ tokens' = IF r.status = 200
                     THEN [tokens EXCEPT ![k] = Svc_login_user_token(email)]
                     ELSE tokens
        /\ expired' = IF r.status = 200 THEN expired \ {k} ELSE expired
        /\ last' = LoginLast(api_key, email, password, g, r)
        /\ UNCHANGED <<dbvars, inflight>>

\* the validity window of the token of slot k ends
Expire(k) ==
    /\ tokens[k] # NoClaims
    /\ tokens' = [tokens EXCEPT ![k] = NoClaims]
    /\ expired' = expired \cup {k}
    /\ last' = Last("expire", <<>>, "", <<>>, k, NoGate, Resp(0, 0, FALSE, {}))
    /\ UNCHANGED <<dbvars, inflight>>

\* PUT /api/users/{user_id}
UpdateUser(api_key, auth, id, data) ==
    LET g == verify_request(Path_user(id), api_key, auth)
        r == Ctl_update_user(g, id, data)
    IN  /\ users' = IF r.invoked THEN Svc_update_user_table(id, data) ELSE users
        /\ last' = Last("update_user", Path_user(id), api_key, auth, id, g, r)
        /\ UNCHANGED <<units, atts, boxes, nextUser, nextUnit, nextAtt, tokens, expired, inflight>>

\* POST /api/health-units/
AddHealthUnit(api_key, auth, p) ==
    LET g == verify_request(Path_health_units, api_key, auth)
        r == Ctl_add_health_unit(g, p)
    IN  /\ nextUnit < MaxUnits
        /\ units' = IF r.invoked THEN Svc_add_health_unit_table(p, g.user.user_id)
                    ELSE units
        /\ nextUnit' = IF r.invoked /\ r.status = 201 THEN nextUnit + 1 ELSE nextUnit
        /\ last' = Last("add_health_unit", Path_health_units, api_key, auth, 0, g, r)
        /\ UNCHANGED <<users, atts, boxes, nextUser, nextAtt, tokens, expired, inflight>>

\* HealthUnitService.add_health_unit called in-process (a seeding script, a
\* test): the HTTP route above never reaches it
ProvisionHealthUnit(admin_id, p) ==
    LET st == Svc_add_health_unit_status(p, admin_id)
    IN  /\ nextUnit < MaxUnits
        /\ units' = Svc_add_health_unit_table(p, admin_id)
        /\ nextUnit' = IF st = 201 THEN nextUnit + 1 ELSE nextUnit
        /\ last' = Last("svc_add_health_unit", <<>>, "", <<>>, admin_id, NoGate,
                        Resp(st, 0, TRUE, {}))
        /\ UNCHANGED <<users, atts, boxes, nextUser, nextAtt, tokens, expired, inflight>>

\* GET /api/health-units/
GetHealthUnits(api_key, auth) ==
    LET g == verify_request(Path_health_units, api_key, auth)
    IN  /\ last' = Last("get_health_units", Path_health_units, api_key, auth, 0, g,
                        Ctl_get_health_units(g))
        /\ UNCHANGED <<dbvars, tokens, expired, inflight>>

\* GET /api/health-units/{unit_id}
GetHealthUnitById(api_key, auth, id) ==
    LET g == verify_request(Path_health_unit(id), api_key, auth)
    IN  /\ last' = Last("get_health_unit_by_id", Path_health_unit(id), api_key, auth, id, g,
                        Ctl_get_health_unit_by_id(g, id))
        /\ UNCHANGED <<dbvars, tokens, expired, inflight>>

\* PUT /api/health-units/{unit_id}
UpdateHealthUnit(api_key, auth, id, data) ==
    LET g == verify_request(Path_health_unit(id), api_key, auth)
        r == Ctl_update_health_unit(g, id, data)
    IN  /\ units' = IF r.invoked THEN Svc_update_health_unit_table(id, data) ELSE units
        /\ last' = Last("update_health_unit", Path_health_unit(id), api_key, auth, id, g, r)
        /\ UNCHANGED <<users, atts, boxes, nextUser, nextUnit, nextAtt, tokens, expired, inflight>>

\* DELETE /api/health-units/{unit_id}
DeleteHealthUnit(api_key, auth, id) ==
    LET g == verify_request(Path_health_unit(id), api_key, auth)
        r == Ctl_delete_health_unit(g, id)
    IN  /\ units' = IF r.invoked THEN Svc_delete_health_unit_table(id) ELSE units
        /\ last' = Last("delete_health_unit", Path_health_unit(id), api_key, auth, id, g, r)
        /\ UNCHANGED <<users, atts, boxes, nextUser, nextUnit, nextAtt, tokens, expired, inflight>>

\* the record of a request that creates an attendance: the record of a
\* request, the unit the payload names as target, and the payload's model
AddAttendanceLast(api_key, auth, p, g, r) ==
    [op |-> "add_attendance", path |-> Path_attendances, api_key |-> api_key,
     auth |-> auth, target |-> p.health_unit_id, gate |-> g, resp |-> r,
     model_used |-> p.model_used, bounding_boxes |-> p.bounding_boxes]

\* POST /api/attendances/
AddAttendance(api_key, auth, p) ==
    LET g == verify_request(Path_attendances, api_key, auth)
        r == Ctl_add_attendance(g, p)
    IN  /\ nextAtt < MaxAtts
        /\ atts' = IF r.invoked THEN Svc_add_attendance_atts(p, g.user.user_id) ELSE atts
        /\ boxes' = IF r.invoked THEN Svc_add_attendance_boxes(p, g.user.user_id) ELSE boxes
        /\ nextAtt' = IF r.invoked /\ r.status = 201 THEN nextAtt + 1 ELSE nextAtt
        /\ last' = AddAttendanceLast(api_key, auth, p, g, r)
        /\ UNCHANGED <<users, units, nextUser, nextUnit, tokens, expired, inflight>>

\* GET /api/attendances/
GetAttendances(api_key, auth, health_unit_id, model_used) ==
    LET g == verify_request(Path_attendances, api_key, auth)
    IN  /\ last' = Last("get_attendances", Path_attendances, api_key, auth, 0, g,
                        Ctl_get_attendances(g, health_unit_id, model_used))
        /\ UNCHANGED <<dbvars, tokens, expired, inflight>>

\* GET /api/attendances/create: the route GET /api/attendances/{attendance_id}
\* with the text "create" for the id, which no row has (uuid.UUID raises and
\* the repository answers None), on a path that starts with the prefix
\* '/api/attendances/create' of the professional routes
Path_attendance_create == P_api \o <<"/", "attendances", "/", "create">>

GetAttendanceCreate(api_key, auth) ==
    LET g == verify_request(Path_attendance_create, api_key, auth)
    IN  /\ last' = Last("get_attendance_by_id", Path_attendance_create, api_key, auth,
                        NULL, g, Ctl_get_attendance_by_id(g, NULL))
        /\ UNCHANGED <<dbvars, tokens, expired, inflight>>

\* the record of a request that fetches an attendance: the record of a
\* request and the bounding_boxes of the attendance in the answer
GetAttendanceLast(api_key, auth, id, g, r) ==
    [op |-> "get_attendance_by_id", path |-> Path_attendance(id),
     api_key |-> api_key, auth |-> auth, target |-> id, gate |-> g, resp |-> r,
     bounding_boxes |-> IF id \in r.ids THEN Repo_attendance_boxes(id) ELSE <<>>]

\* GET /api/attendances/{attendance_id}
GetAttendanceById(api_key, auth, id) ==
    LET g == verify_request(Path_attendance(id), api_key, auth)
    IN  /\ last' = GetAttendanceLast(api_key, auth, id, g, Ctl_get_attendance_by_id(g, id))
        /\ UNCHANGED <<dbvars, tokens, expired, inflight>>

\* the record of a request that updates an attendance: the record of a
\* request and the bounding_boxes and the model_used of its body
UpdateAttendanceLast(api_key, auth, id, d, g, r) ==
    [op |-> "update_attendance", path |-> Path_attendance(id), api_key |-> api_key,
     auth |-> auth, target |-> id, gate |-> g, resp |-> r,
     bounding_boxes |-> d.bounding_boxes, model_used |-> d.model_used]

\* PUT /api/attendances/{attendance_id}
UpdateAttendance(api_key, auth, id, d) ==
    LET g == verify_request(Path_attendance(id), api_key, auth)
        r == Ctl_update_attendance(g, id, d)
    IN  /\ atts' = IF r.invoked THEN Svc_update_attendance_atts(id, d, g.user.user_id)
                   ELSE atts
        /\ boxes' = IF r.invoked THEN Svc_update_attendance_boxes(id, d, g.user.user_id)
                    ELSE boxes
        /\ last' = UpdateAttendanceLast(api_key, auth, id, d, g, r)
        /\ UNCHANGED <<users, units, nextUser, nextUnit, nextAtt, tokens, expired, inflight>>

\* DELETE /api/attendances/{attendance_id}
DeleteAttendance(api_key, auth, id) ==
    LET g == verify_request(Path_attendance(id), api_key, auth)
        r == Ctl_delete_attendance(g, id)
    IN  /\ atts' = IF r.invoked THEN Svc_delete_attendance_atts(id, g.user.user_id)
                   ELSE atts
        /\ boxes' = IF r.invoked THEN Svc_delete_attendance_boxes(id, g.user.user_id)
                    ELSE boxes
        /\ last' = Last("delete_attendance", Path_attendance(id), api_key, auth, id, g, r)
        /\ UNCHANGED <<users, units, nextUser, nextUnit, nextAtt, tokens, expired, inflight>>

\* GET /api/attendances/statistics/summary
GetStatistics(api_key, auth) ==
    LET g == verify_request(Path_statistics, api_key, auth)
    IN  /\ last' = Last("get_statistics", Path_statistics, api_key, auth, 0, g,
                        Ctl_get_statistics(g, "month"))
        /\ UNCHANGED <<dbvars, tokens, expired, inflight>>

\* ------------------------------------------------------ the specifications
Empty == [x \in {} |-> NULL]

Init ==
    /\ users = Empty /\ units = Empty /\ atts = Empty /\ boxes = <<>>
    /\ nextUser = 0 /\ nextUnit = 0 /\ nextAtt = 0
    /\ tokens = [k \in 1..MaxTokens |-> NoClaims] /\ expired = {}
    /\ inflight = {}
    /\ last = Last("none", <<>>, "", <<>>, 0, NoGate, Resp(0, 0, FALSE, {}))

\* the headers of a client that holds the API key and sends its token
Callers == {Bearer(k) : k \in TokenIds}

\* Users, tenancy and attendances: every request carries the API key and a
\* live token; update_user reassigns professionals.
Next ==
    \/ EnsureRoot(API_KEY, <<>>)
    \/ \E k \in 1..MaxTokens, u \in DOMAIN users :
           Login(API_KEY, k, users[u].email, PasswordOf(u))
    \/ \E c \in Callers, p \in CreateUserInputs : AddUser(API_KEY, c, p)
    \/ \E c \in Callers, id \in Professionals : \E d \in UpdateUserInputs(id) :
           UpdateUser(API_KEY, c, id, d)
    \/ \E a \in DOMAIN users, p \in CreateHealthUnitInputs : ProvisionHealthUnit(a, p)
    \/ \E c \in Callers, p \in CreateAttendanceInputs : AddAttendance(API_KEY, c, p)
    \/ \E c \in Callers, h \in 0..MaxUnits, m \in {"", "breast"} :
           GetAttendances(API_KEY, c, h, m)
    \/ \E c \in Callers, id \in 1..MaxAtts : GetAttendanceById(API_KEY, c, id)
    \/ \E c \in Callers, id \in 1..MaxAtts, d \in UpdateAttendanceInputs :
           UpdateAttendance(API_KEY, c, id, d)
    \/ \E c \in Callers, id \in 1..MaxAtts : DeleteAttendance(API_KEY, c, id)
    \/ \E c \in Callers : GetStatistics(API_KEY, c)

Spec == Init /\ [][Next]_vars

\* Health units: the same clients, and the health-unit routes.
NextUnits ==
    \/ EnsureRoot(API_KEY, <<>>)
    \/ \E k \in 1..MaxTokens, u \in DOMAIN users :
           Login(API_KEY, k, users[u].email, PasswordOf(u))
    \/ \E c \in Callers, p \in CreateUserInputs : AddUser(API_KEY, c, p)
    \/ \E a \in DOMAIN users, p \in CreateHealthUnitInputs : ProvisionHealthUnit(a, p)
    \/ \E c \in Callers, p \in CreateHealthUnitInputs : AddHealthUnit(API_KEY, c, p)
    \/ \E c \in Callers : GetHealthUnits(API_KEY, c)
    \/ \E c \in Callers, id \in 1..MaxUnits : GetHealthUnitById(API_KEY, c, id)
    \/ \E c \in Callers, id \in 1..MaxUnits, d \in UpdateHealthUnitInputs :
           UpdateHealthUnit(API_KEY, c, id, d)
    \/ \E c \in Callers, id \in 1..MaxUnits : DeleteHealthUnit(API_KEY, c, id)
    \/ \E c \in Callers, p \in CreateAttendanceInputs : AddAttendance(API_KEY, c, p)
    \/ \E c \in Callers : GetStatistics(API_KEY, c)

SpecUnits == Init /\ [][NextUnits]_vars

\* The credential gate: any API key and any Authorization header.
Keys == {"", "wrong", API_KEY}

Headers ==
    {<<>>, <<"Bearer">>, <<"Bearer", " ">>, <<"Bearer", " ", "forged">>}
    \cup {Bearer(k) : k \in 1..MaxTokens}
    \cup {<<IdText(k)>> : k \in 1..MaxTokens}
    \cup {<<"Basic", " ", IdText(k)>> : k \in 1..MaxTokens}

\* the credentials of a request: with the API key any header, without it no
\* header or a well-formed one
Creds ==
    {cr \in Keys \X Headers : cr[1] = API_KEY \/ cr[2] \in {<<>>, Bearer(1)}}

\* one payload per write: a professional without administrator, the row of
\* the root user as it is
GateUserInputs ==
    {p \in CreateUserInputs :
        p.profile = "professional" /\ p.email # USER_EMAIL_ROOT /\ p.admin_id = NULL}

GateUpdateInputs(id) ==
    {d \in UpdateUserInputs(id) : d.admin_id = None}

NextGate ==
    \/ \E cr \in Creds : HealthCheck(cr[1], cr[2])
    \/ \E cr \in Creds : EnsureRoot(cr[1], cr[2])
    \/ \E key \in Keys, k \in 1..MaxTokens, u \in DOMAIN users, pw \in {"pw", "rootpw"} :
           Login(key, k, users[u].email, pw)
    \/ \E k \in 1..MaxTokens : Expire(k)
    \/ \E cr \in Creds, p \in GateUserInputs : AddUser(cr[1], cr[2], p)
    \/ \E cr \in Creds, id \in DOMAIN users \cap {1} : \E d \in GateUpdateInputs(id) :
           UpdateUser(cr[1], cr[2], id, d)
    \/ \E cr \in Creds, p \in CreateHealthUnitInputs : AddHealthUnit(cr[1], cr[2], p)
    \/ \E cr \in Creds : GetHealthUnits(cr[1], cr[2])
    \/ \E cr \in Creds : GetHealthUnitById(cr[1], cr[2], 1)
    \/ \E cr \in Creds, d \in UpdateHealthUnitInputs : UpdateHealthUnit(cr[1], cr[2], 1, d)
    \/ \E cr \in Creds : DeleteHealthUnit(cr[1], cr[2], 1)
    \/ \E cr \in Creds, p \in CreateAttendanceInputs : AddAttendance(cr[1], cr[2], p)
    \/ \E cr \in Creds : GetAttendances(cr[1], cr[2], NULL, "")
    \/ \E cr \in Creds : GetAttendanceById(cr[1], cr[2], 1)
    \/ \E cr \in Creds : GetAttendanceCreate(cr[1], cr[2])
    \/ \E cr \in Creds, d \in UpdateAttendanceInputs : UpdateAttendance(cr[1], cr[2], 1, d)
    \/ \E cr \in Creds : DeleteAttendance(cr[1], cr[2], 1)
    \/ \E cr \in Creds : GetStatistics(cr[1], cr[2])

SpecGate == Init /\ [][NextGate]_vars

\* ------------------------------------------------------------ properties
\* the claims of the token a header presents, whether or not the gate
\* attached them to the request
CallerClaims(auth) ==
    IF auth = <<>> \/ ~extract_token(auth).ok THEN NoClaims
    ELSE decode_token(extract_token(auth).text).claims

\* the caller's token says what the users table says about the caller
FreshCaller(c) ==
    /\ c.user_id \in DOMAIN users
    /\ c = create_token(c.user_id, users[c.user_id].profile, users[c.user_id].admin_id)

\* C1: get-attendance-by-id invoked by a professional P whose administrator
\* is A never returns an attendance whose admin_id is not A: the answer is
\* Forbidden (403) or NotFound (404).
C1_GetByIdStaysInTenancy ==
    LET c == last.gate.user
    IN  (/\ last.op = "get_attendance_by_id"
         /\ last.gate.attached
         /\ FreshCaller(c)
         /\ c.profile = "professional"
         /\ c.admin_id \in Administrators
         /\ last.target \in DOMAIN atts
         /\ atts[last.target].admin_id # users[c.user_id].admin_id)
        => (last.resp.status \in {403, 404} /\ last.target \notin last.resp.ids)

\* C2: update_attendance and delete_attendance invoked by a professional P
\* whose current administrator is A, on an attendance whose admin_id is not A,
\* fail with 403 or 404 and leave the attendance and its boxes unchanged.
C2_Step ==
    LET c == last'.gate.user
    IN  (/\ last'.op \in {"update_attendance", "delete_attendance"}
         /\ last'.gate.attached
         /\ FreshCaller(c)
         /\ c.profile = "professional"
         /\ c.admin_id \in Administrators
         /\ last'.target \in DOMAIN atts
         /\ atts[last'.target].admin_id # users[c.user_id].admin_id)
        => (/\ last'.resp.status \in {403, 404}
            /\ atts' = atts
            /\ boxes' = boxes)

C2_ProfessionalMutatesOnlyInTenancy == [][C2_Step]_vars

\* C3: update_attendance and delete_attendance invoked by an administrator X
\* on an attendance whose admin_id is not X never modify or remove it.
C3_Step ==
    LET c == last'.gate.user
    IN  (/\ last'.op \in {"update_attendance", "delete_attendance"}
         /\ last'.gate.attached
         /\ FreshCaller(c)
         /\ c.profile = "administrator"
         /\ last'.target \in DOMAIN atts
         /\ atts[last'.target].admin_id # c.user_id)
        => (atts' = atts /\ boxes' = boxes)

C3_AdministratorMutatesOnlyOwn == [][C3_Step]_vars

\* C4: the attendance list returns only attendances of the caller's scope,
\* whatever filters are supplied: admin_id = caller.user_id for an
\* administrator; admin_id = caller.admin_id and professional_id =
\* caller.user_id for a professional.
C4_ListStaysInScope ==
    LET c == last.gate.user
    IN  (last.op = "get_attendances" /\ last.gate.attached /\ FreshCaller(c))
        => \A a \in last.resp.ids :
              /\ c.profile = "administrator" => atts[a].admin_id = c.user_id
              /\ c.profile = "professional" =>
                    /\ atts[a].admin_id = c.admin_id
                    /\ atts[a].professional_id = c.user_id

\* C5: a health unit of administrator A is readable, by list or by id, by
\* every professional whose admin_id is A, by no professional of another
\* administrator and by no other administrator.
C5_UnitReadableInTenancyOnly ==
    LET c == CallerClaims(last.auth)
        scope == IF c.profile = "administrator" THEN c.user_id ELSE c.admin_id
    IN  (/\ last.op \in {"get_health_units", "get_health_unit_by_id"}
         /\ last.api_key = API_KEY
         /\ FreshCaller(c))
        => /\ \A h \in last.resp.ids : units[h].admin_id = scope
           /\ (c.profile = "professional" /\ c.admin_id \in Administrators) =>
                 /\ (/\ last.op = "get_health_unit_by_id"
                     /\ last.target \in DOMAIN units
                     /\ units[last.target].admin_id = c.admin_id)
                    => last.target \in last.resp.ids
                 /\ last.op = "get_health_units"
                    => Repo_get_health_units(c.admin_id) \subseteq last.resp.ids

\* C6: update_health_unit and delete_health_unit change a unit only for the
\* administrator whose id is the unit's admin_id; for any other administrator
\* they fail with Forbidden (403) and leave the unit as it is.
C6_Step ==
    LET c == CallerClaims(last'.auth)
    IN  (/\ last'.op \in {"update_health_unit", "delete_health_unit"}
         /\ last'.api_key = API_KEY
         /\ FreshCaller(c)
         /\ last'.target \in DOMAIN units)
        => /\ units' # units =>
                 (c.profile = "administrator" /\ units[last'.target].admin_id = c.user_id)
           /\ (c.profile = "administrator" /\ units[last'.target].admin_id # c.user_id)
              => (last'.resp.status = 403 /\ units' = units)

C6_OnlyOwnerMutatesUnit == [][C6_Step]_vars

\* the operations served over HTTP, and those whose handler runs verify_request
HttpOps ==
    {"health_check", "ensure_root", "login", "add_user", "update_user",
     "add_health_unit", "get_health_units", "get_health_unit_by_id",
     "update_health_unit", "delete_health_unit", "add_attendance",
     "get_attendances", "get_attendance_by_id", "update_attendance",
     "delete_attendance", "get_statistics"}

GatedOps == HttpOps \ {"health_check", "ensure_root", "login"}

\* C7: every request without the configured API key is rejected before any
\* other processing, on every endpoint and whatever the Authorization
\* header: 400 when the key is absent, 403 when it does not match.
C7_ApiKeyOnEveryEndpoint ==
    last.op \in HttpOps
    => /\ last.api_key = ""
          => (last.resp.http = 400 /\ ~last.resp.invoked)
       /\ last.api_key \notin {"", API_KEY}
          => (last.resp.http = 403 /\ ~last.resp.invoked)

\* the token a header of the form "Bearer <token>" carries fails verification
TokenFails(auth) ==
    /\ auth # <<>>
    /\ extract_token(auth).ok
    /\ decode_token(extract_token(auth).text).kind # "ok"

\* C8: on a non-public path a request whose token fails verification is never
\* admitted: no claims are attached and no use-case is invoked; with the API
\* key accepted the answer is 401, and "Token has expired" for an expired
\* token.
C8_FailedTokenNeverAdmitted ==
    (/\ last.op \in GatedOps
     /\ ~is_public_path(last.path)
     /\ TokenFails(last.auth))
    => /\ last.gate.status # 0
       /\ ~last.gate.attached
       /\ last.gate.user = NoClaims
       /\ ~last.resp.invoked
       /\ last.api_key = API_KEY =>
             /\ last.resp.http = 401
             /\ last.gate.status = 401
             /\ decode_token(extract_token(last.auth).text).kind = "expired"
                => last.gate.reason = "Token has expired"

\* a request with the API key on a gated path whose token had expired was
\* answered 401 "Token has expired"
C8_Witness ==
    /\ last.op = "add_user"
    /\ last.api_key = API_KEY
    /\ \E k \in expired : last.auth = Bearer(k)
    /\ last.gate.reason = "Token has expired"
    /\ last.resp.http = 401

\* the header has the form "Bearer <token>"
IsBearerForm(auth) ==
    Len(auth) = 3 /\ auth[1] = "Bearer" /\ auth[2] = " "

\* C9: on a non-public path a request without Authorization header is
\* rejected with 401 (MissingToken), and one whose header is not of the form
\* "Bearer <token>" is rejected with 401 and never admitted, whatever the
\* header's content (the wording of the rejection is left open here).
C9_HeaderFormEnforced ==
    (/\ last.op \in GatedOps
     /\ ~is_public_path(last.path)
     /\ last.api_key = API_KEY)
    => /\ last.auth = <<>>
          => (last.gate.status = 401 /\ last.gate.reason = "MissingToken")
       /\ (last.auth # <<>> /\ ~IsBearerForm(last.auth))
          => /\ last.gate.status = 401
             /\ ~last.gate.attached
             /\ ~last.resp.invoked

\* C10: an admin-only operation (create user, create health unit,
\* statistics) requested with claims whose profile is not administrator is
\* answered 403 without its use-case being invoked; create attendance
\* requested with claims whose profile is not professional is answered 403
\* and persists nothing.
C10_Step ==
    LET c == CallerClaims(last'.auth)
    IN  /\ (/\ last'.op \in {"add_user", "add_health_unit", "get_statistics"}
            /\ last'.api_key = API_KEY
            /\ c # NoClaims
            /\ c.profile # "administrator")
           => (last'.resp.status = 403 /\ ~last'.resp.invoked)
        /\ (/\ last'.op = "add_attendance"
            /\ last'.api_key = API_KEY
            /\ c # NoClaims
            /\ c.profile # "professional")
           => (last'.resp.status = 403 /\ atts' = atts /\ boxes' = boxes)

C10_RoleChecks == [][C10_Step]_vars

\* the operations whose path addresses one health unit by its id
UnitByIdOps == {"get_health_unit_by_id", "update_health_unit", "delete_health_unit"}

\* C11: a request whose path addresses a health unit by id is admitted by the
\* gate only when the caller is the administrator who owns the unit or a
\* professional of that administrator; any other request is rejected before
\* admission.
C11_UnitAccessBeforeAdmission ==
    LET c == CallerClaims(last.auth)
    IN  (/\ last.op \in UnitByIdOps
         /\ last.target \in DOMAIN units
         /\ last.gate.status = 0)
        => \/ c.profile = "administrator"
              /\ units[last.target].admin_id = c.user_id
           \/ c.profile = "professional"
              /\ units[last.target].admin_id = c.admin_id

\* ------------------------------------------- user reads and user deletion
Path_professionals == P_api \o <<"/", "users", "/", "professionals", "/", "list">>

\* SELECT * FROM users [WHERE admin_id = $1 OR id = $1]: no filter when
\* admin_id is None
Repo_get_users(admin_id) ==
    IF admin_id # NULL
    THEN {u \in DOMAIN users : users[u].admin_id = admin_id \/ u = admin_id}
    ELSE DOMAIN users

\* SELECT * FROM users WHERE admin_id = $1 AND profile = 'professional'
Repo_get_professionals_by_admin(admin_id) ==
    {u \in DOMAIN users :
        users[u].admin_id = admin_id /\ users[u].profile = "professional"}

\* the rows of users that refer to user id
Referrers(id) == {u \in DOMAIN users : users[u].admin_id = id}

\* DELETE FROM users WHERE id = $1 RETURNING id: the statement of a row that
\* other rows refer to either raises (deleted: False) or removes the row,
\* as the schema decides; refused is that decision
Repo_delete_user_ok(id, refused) ==
    id \in DOMAIN users /\ ~(refused /\ Referrers(id) # {})

Repo_delete_user(id) ==
    [u \in DOMAIN users \ {id} |-> users[u]]

Svc_get_users_status == 200

Svc_get_user_by_id_status(id) ==
    IF Repo_get_user_by_id(id) = NULL THEN 404 ELSE 200

Svc_delete_user_status(id, refused) ==
    IF Repo_get_user_by_id(id) = NULL THEN 404
    ELSE IF ~Repo_delete_user_ok(id, refused) THEN 500
    ELSE 200

Svc_delete_user_table(id, refused) ==
    IF Svc_delete_user_status(id, refused) = 200 THEN Repo_delete_user(id) ELSE users

\* get_user_by_id(None) finds no row
Svc_get_professionals_status(admin_id) ==
    IF Repo_get_user_by_id(admin_id) = NULL THEN 404
    ELSE IF users[admin_id].profile # "administrator" THEN 403
    ELSE 200

\* admin_id is the query parameter, NULL when it was left out
Ctl_get_users(g, admin_id) ==
    IF g.status # 0 THEN GateRejects(g)
    ELSE IF ~g.attached THEN NoStateUser
    ELSE LET a == IF g.user.profile = "professional" THEN g.user.admin_id
                  ELSE admin_id
         IN  IF g.user.profile = "professional" /\ a = NULL THEN Soft(403, 200)
             ELSE FromService(Svc_get_users_status, 200, Repo_get_users(a))

Ctl_get_user_by_id(g, id) ==
    IF g.status # 0 THEN GateRejects(g)
    ELSE IF ~g.attached THEN NoStateUser
    ELSE IF id # g.user.user_id /\ g.user.profile # "administrator" THEN Soft(403, 200)
    ELSE FromService(Svc_get_user_by_id_status(id), 200,
             IF Svc_get_user_by_id_status(id) = 200 THEN {id} ELSE {})

Ctl_delete_user(g, id, refused) ==
    IF g.status # 0 THEN GateRejects(g)
    ELSE IF ~g.attached THEN NoStateUser
    ELSE IF g.user.profile # "administrator" THEN Soft(403, 200)
    ELSE FromService(Svc_delete_user_status(id, refused), 200, {})

Ctl_get_professionals(g, admin_id) ==
    IF g.status # 0 THEN GateRejects(g)
    ELSE IF ~g.attached THEN NoStateUser
    ELSE LET a == IF admin_id = NULL /\ g.user.profile = "administrator"
                  THEN g.user.user_id
                  ELSE IF g.user.profile = "professional" THEN g.user.admin_id
                  ELSE admin_id
         IN  IF g.user.profile = "professional" /\ a = NULL THEN Soft(403, 200)
             ELSE FromService(Svc_get_professionals_status(a), 200,
                      IF Svc_get_professionals_status(a) = 200
                      THEN Repo_get_professionals_by_admin(a) ELSE {})

\* GET /api/users/?admin_id=
GetUsers(api_key, auth, admin_id) ==
    LET g == verify_request(Path_users, api_key, auth)
    IN  /\ last' = Last("get_users", Path_users, api_key, auth, admin_id, g,
                        Ctl_get_users(g, admin_id))
        /\ UNCHANGED <<dbvars, tokens, expired, inflight>>

\* GET /api/users/{user_id}
GetUserById(api_key, auth, id) ==
    LET g == verify_request(Path_user(id), api_key, auth)
    IN  /\ last' = Last("get_user_by_id", Path_user(id), api_key, auth, id, g,
                        Ctl_get_user_by_id(g, id))
        /\ UNCHANGED <<dbvars, tokens, expired, inflight>>

\* DELETE /api/users/{user_id}
DeleteUser(api_key, auth, id, refused) ==
    LET g == verify_request(Path_user(id), api_key, auth)
        r == Ctl_delete_user(g, id, refused)
    IN  /\ users' = IF r.invoked THEN Svc_delete_user_table(id, refused) ELSE users
        /\ last' = Last("delete_user", Path_user(id), api_key, auth, id, g, r)
        /\ UNCHANGED <<units, atts, boxes, nextUser, nextUnit, nextAtt, tokens, expired, inflight>>

\* GET /api/users/professionals/list?admin_id=
GetProfessionals(api_key, auth, admin_id) ==
    LET g == verify_request(Path_professionals, api_key, auth)
    IN  /\ last' = Last("get_professionals", Path_professionals, api_key, auth,
                        admin_id, g, Ctl_get_professionals(g, admin_id))
        /\ UNCHANGED <<dbvars, tokens, expired, inflight>>

\* POST /api/users/ payloads with a fresh address: the two profiles, no
\* administrator or an existing one, the given statuses
NewUserInputs(statuses) ==
    [full_name : {TRUE},
     email     : {EmailOf(nextUser + 1)},
     password  : {"pw"},
     profile   : valid_profiles,
     admin_id  : {NULL} \cup Administrators,
     status    : statuses]

\* Login: accounts that are active or inactive, addresses that are known or
\* unknown, passwords that match or do not.
NextLogin ==
    \/ EnsureRoot(API_KEY, <<>>)
    \/ \E c \in Callers, p \in NewUserInputs({"active", "inactive"}) :
           AddUser(API_KEY, c, p)
    \/ \E c \in Callers, id \in Professionals : \E d \in UpdateUserInputs(id) :
           UpdateUser(API_KEY, c, id, d)
    \/ \E k \in 1..MaxTokens, email \in {users[u].email : u \in DOMAIN users} \cup {"nobody@x"},
          pw \in {"pw", "rootpw"} :
           Login(API_KEY, k, email, pw)

SpecLogin == Init /\ [][NextLogin]_vars

\* The users of a tenancy: creation, reassignment, deletion and the reads,
\* with the admin_id query parameter left out or naming any user.
NextUsers ==
    \/ EnsureRoot(API_KEY, <<>>)
    \/ \E k \in 1..MaxTokens, u \in DOMAIN users :
           Login(API_KEY, k, users[u].email, PasswordOf(u))
    \/ \E c \in Callers, p \in NewUserInputs({"active"}) : AddUser(API_KEY, c, p)
    \/ \E c \in Callers, id \in DOMAIN users : \E d \in UpdateUserInputs(id) :
           UpdateUser(API_KEY, c, id, d)
    \/ \E c \in Callers, id \in 1..MaxUsers, refused \in BOOLEAN :
           DeleteUser(API_KEY, c, id, refused)
    \/ \E c \in Callers, id \in 1..MaxUsers : GetUserById(API_KEY, c, id)
    \/ \E c \in Callers, a \in 0..MaxUsers : GetUsers(API_KEY, c, a)
    \/ \E c \in Callers, a \in 0..MaxUsers : GetProfessionals(API_KEY, c, a)

SpecUsers == Init /\ [][NextUsers]_vars

\* C12: login answers 404 when no user has the address, 403 when the stored
\* status is not active whether or not the password matches, 401 when the
\* password does not match, in that order; only when all three pass is a
\* token issued, carrying the stored user's id, profile and admin_id; a
\* failing login issues no token.
C12_Step ==
    LET u == last'.target
    IN  (last'.op = "login" /\ last'.api_key = API_KEY)
        => /\ u = NULL => last'.resp.status = 404
           /\ (u # NULL /\ users[u].status # "active") => last'.resp.status = 403
           /\ (u # NULL /\ users[u].status = "active"
                 /\ last'.password # PasswordOf(u)) => last'.resp.status = 401
           /\ (u # NULL /\ users[u].status = "active"
                 /\ last'.password = PasswordOf(u))
              => /\ last'.resp.status = 200
                 /\ \E k \in 1..MaxTokens :
                       /\ tokens'[k] = [user_id  |-> u,
                                        profile  |-> users[u].profile,
                                        admin_id |-> users[u].admin_id]
                       /\ \A j \in 1..MaxTokens \ {k} : tokens'[j] = tokens[j]
           /\ last'.resp.status # 200 => (tokens' = tokens /\ expired' = expired)

C12_LoginOrder == [][C12_Step]_vars

\* an inactive user logged in with the right password and was answered 403
C12_Witness ==
    /\ last.op = "login"
    /\ last.target \in DOMAIN users
    /\ users[last.target].status = "inactive"
    /\ last.password = PasswordOf(last.target)
    /\ last.resp.status = 403

\* C13: in every reachable state every stored professional has a non-null
\* admin_id that refers to a stored administrator, and every stored
\* administrator has admin_id null.
C13_ProfessionalsHaveAdministrator ==
    \A u \in DOMAIN users :
        /\ users[u].profile = "professional"
           => (users[u].admin_id # NULL /\ users[u].admin_id \in Administrators)
        /\ users[u].profile = "administrator" => users[u].admin_id = NULL

\* C14: the token a successful login issues carries no admin_id when its
\* profile is administrator, and a non-null admin_id that identifies a stored
\* administrator when its profile is professional.
C14_IssuedClaimsWellFormed ==
    (last.op = "login" /\ last.resp.status = 200)
    => \A k \in 1..MaxTokens :
          (tokens[k].user_id = last.target /\ FreshCaller(tokens[k]))
          => /\ tokens[k].profile = "administrator" => tokens[k].admin_id = NULL
             /\ tokens[k].profile = "professional"
                => (tokens[k].admin_id # NULL /\ tokens[k].admin_id \in Administrators)

\* PUT /api/users/{id} payloads that keep the address and the administrator
\* and set the profile
RoleUpdateInputs(id) ==
    [full_name : {TRUE},
     email     : {Some(users[id].email)},
     profile   : {Some(pr) : pr \in valid_profiles},
     admin_id  : {IF users[id].admin_id = NULL THEN None ELSE Some(users[id].admin_id)},
     status    : {None}]

\* POST /api/attendances/ payloads that also carry a professional_id and an
\* admin_id of the client's choosing
ForgedAttendanceInputs ==
    [health_unit_id  : 1..MaxUnits,
     model_used      : {"breast", "xray"},
     model_result    : {"r1"},
     image_base64    : {"img"},
     bounding_boxes  : {<<Box1>>},
     professional_id : {NULL, 1},
     admin_id        : {NULL, 1}]

\* UserService.delete_user called in-process, by another client than the one
\* whose token the model holds
PurgeUser(id) ==
    LET st == Svc_delete_user_status(id, FALSE)
    IN  /\ users' = Svc_delete_user_table(id, FALSE)
        /\ last' = Last("svc_delete_user", <<>>, "", <<>>, id, NoGate,
                        Resp(st, 0, TRUE, {}))
        /\ UNCHANGED <<units, atts, boxes, nextUser, nextUnit, nextAtt, tokens, expired, inflight>>

NewProfessionalInputs ==
    {p \in NewUserInputs({"active"}) : p.profile = "professional"}

\* Creating attendances: callers whose stored row changed or went away after
\* the token was issued, units of the caller's administrator or of another.
NextAdd ==
    \/ EnsureRoot(API_KEY, <<>>)
    \/ \E k \in 1..MaxTokens, u \in DOMAIN users :
           Login(API_KEY, k, users[u].email, PasswordOf(u))
    \/ \E c \in Callers, p \in NewProfessionalInputs : AddUser(API_KEY, c, p)
    \/ \E c \in Callers, id \in DOMAIN users \ {1} : \E d \in RoleUpdateInputs(id) :
           UpdateUser(API_KEY, c, id, d)
    \/ \E id \in Professionals : PurgeUser(id)
    \/ \E a \in Administrators, p \in CreateHealthUnitInputs : ProvisionHealthUnit(a, p)
    \/ \E c \in Callers, p \in ForgedAttendanceInputs : AddAttendance(API_KEY, c, p)

SpecAdd == Init /\ [][NextAdd]_vars

\* the attendance a step added, NULL when it added none
AddedAttendance == IF nextAtt' = nextAtt + 1 THEN nextAtt' ELSE NULL

\* C16: add_attendance stores an attendance only when the caller id resolves
\* to a stored professional with a non-null admin_id and the unit exists with
\* that admin_id; the stored record has the caller's id as professional_id
\* and the professional's stored admin_id as admin_id, whatever the payload
\* carries. Otherwise it fails (404 professional absent, 403 not a
\* professional, 400 no administrator, 404 unit absent, 403 unit of another
\* administrator) and stores nothing.
C16_Step ==
    LET pid == last'.gate.user.user_id
        h   == last'.target
        st  == last'.resp.status
    IN  (last'.op = "add_attendance" /\ last'.resp.invoked)
        => /\ pid \notin DOMAIN users => st = 404
           /\ (pid \in DOMAIN users /\ users[pid].profile # "professional") => st = 403
           /\ (pid \in DOMAIN users /\ users[pid].profile = "professional"
                 /\ users[pid].admin_id = NULL) => st = 400
           /\ (pid \in DOMAIN users /\ users[pid].profile = "professional"
                 /\ users[pid].admin_id # NULL /\ h \notin DOMAIN units) => st = 404
           /\ (pid \in DOMAIN users /\ users[pid].profile = "professional"
                 /\ users[pid].admin_id # NULL /\ h \in DOMAIN units
                 /\ units[h].admin_id # users[pid].admin_id) => st = 403
           /\ st = 201
              => /\ pid \in DOMAIN users
                 /\ users[pid].profile = "professional"
                 /\ users[pid].admin_id # NULL
                 /\ h \in DOMAIN units
                 /\ units[h].admin_id = users[pid].admin_id
                 /\ AddedAttendance # NULL
                 /\ DOMAIN atts' = DOMAIN atts \cup {AddedAttendance}
                 /\ atts'[AddedAttendance].professional_id = pid
                 /\ atts'[AddedAttendance].admin_id = users[pid].admin_id
                 /\ atts'[AddedAttendance].health_unit_id = h
                 /\ \A a \in DOMAIN atts : atts'[a] = atts[a]
           /\ st # 201 => (atts' = atts /\ boxes' = boxes /\ nextAtt' = nextAtt)

C16_AddAttendanceResolvesTenancy == [][C16_Step]_vars

\* an attendance was stored for a payload that named another professional
\* and another administrator than the caller's
C16_Witness ==
    /\ last.op = "add_attendance"
    /\ last.resp.status = 201
    /\ \E a \in DOMAIN atts :
          /\ atts[a].professional_id = last.gate.user.user_id
          /\ atts[a].professional_id # 1
          /\ atts[a].admin_id = users[atts[a].professional_id].admin_id

\* the caller of add_attendance is a stored professional of a stored
\* administrator
C19_CallerInOrder(pid) ==
    /\ pid \in DOMAIN users
    /\ users[pid].profile = "professional"
    /\ users[pid].admin_id \in Administrators

\* C19 as stated: add_attendance with a model_used outside the four models
\* fails with 422 and stores no attendance, whatever else the request names.
C19_Step_AsStated ==
    (/\ last'.op = "add_attendance"
     /\ last'.resp.invoked
     /\ C19_CallerInOrder(last'.gate.user.user_id)
     /\ last'.model_used \notin {"respiratory", "tuberculosis", "osteoporosis", "breast"})
    => (last'.resp.status = 422 /\ atts' = atts /\ boxes' = boxes)

C19_InvalidModelIs422 == [][C19_Step_AsStated]_vars

\* C19: add_attendance with a model_used outside the four models stores no
\* attendance and no box; it fails with 422 exactly when the caller resolves
\* to a stored professional with an administrator and the unit exists and
\* belongs to that administrator, and with the status of the earlier check
\* (404, 403, 400) otherwise.
C19_Step ==
    LET pid == last'.gate.user.user_id
        h   == last'.target
    IN  (/\ last'.op = "add_attendance"
         /\ last'.resp.invoked
         /\ last'.model_used \notin {"respiratory", "tuberculosis", "osteoporosis", "breast"})
        => /\ atts' = atts /\ boxes' = boxes /\ nextAtt' = nextAtt
           /\ last'.resp.status \in {400, 403, 404, 422}
           /\ last'.resp.status = 422
              <=> /\ pid \in DOMAIN users
                  /\ users[pid].profile = "professional"
                  /\ users[pid].admin_id # NULL
                  /\ h \in DOMAIN units
                  /\ units[h].admin_id = users[pid].admin_id

C19_InvalidModelStoresNothing == [][C19_Step]_vars

\* a professional named a unit of its administrator and the model "xray" and
\* was answered 422
C19_Witness ==
    /\ last.op = "add_attendance"
    /\ last.resp.invoked
    /\ last.model_used = "xray"
    /\ last.target \in DOMAIN units
    /\ last.resp.status = 422
    /\ atts = Empty

\* C17: get_user_by_id, update_user and delete_user take effect on a stored
\* user only when the caller is that user, or an administrator whose id is
\* the user's admin_id; any other caller is denied, the user is not disclosed
\* and the users are left as they were.
C17_Step ==
    LET c == last'.gate.user
        t == last'.target
    IN  (/\ last'.op \in {"get_user_by_id", "update_user", "delete_user"}
         /\ last'.gate.attached
         /\ FreshCaller(c)
         /\ t \in DOMAIN users
         /\ c.user_id # t
         /\ ~(c.profile = "administrator" /\ users[t].admin_id = c.user_id))
        => /\ last'.resp.status \in {403, 404}
           /\ t \notin last'.resp.ids
           /\ users' = users

C17_UserAccessOnlyInTenancy == [][C17_Step]_vars

\* C18: the user list and the professional list return only users of the
\* caller's tenancy: to an administrator the users whose admin_id is the
\* caller's id and the caller itself, whatever admin_id parameter is sent or
\* left out; to a professional the users whose admin_id is the caller's
\* admin_id and that administrator.
C18_UserListsStayInTenancy ==
    LET c == last.gate.user
    IN  (/\ last.op \in {"get_users", "get_professionals"}
         /\ last.gate.attached
         /\ FreshCaller(c))
        => \A u \in last.resp.ids \cap DOMAIN users :
              IF c.profile = "administrator"
              THEN u = c.user_id \/ users[u].admin_id = c.user_id
              ELSE users[u].admin_id = c.admin_id \/ u = c.admin_id

Box2 == [x |-> 3, y |-> 3, width |-> 1, height |-> 1]

\* PUT /api/attendances/{id} payloads that carry bounding boxes: none, one or
\* two boxes, alone or together with a new model_result
BoxUpdateInputs ==
    [professional_id : {None},
     health_unit_id  : {None},
     admin_id        : {None},
     model_used      : {None, Some("breast"), Some("respiratory")},
     model_result    : {None, Some("r2")},
     bounding_boxes  : {Some(<<>>), Some(<<Box2>>), Some(<<Box2, Box1>>)}]

\* POST /api/attendances/ payloads with no, one or two bounding boxes, for
\* the breast model and for another
BoxAttendanceInputs ==
    [health_unit_id : 1..MaxUnits,
     model_used     : {"breast", "respiratory"},
     model_result   : {"r1"},
     image_base64   : {"img"},
     bounding_boxes : {<<>>, <<Box1>>, <<Box1, Box2>>}]

\* async with conn.transaction(): the tables when the block is left, written
\* being what its statements wrote until it ended or one of them raised
transaction_outcome_autocommit(before, written, raised) == written

transaction_outcome(before, written, raised) ==
    IF raised THEN before ELSE written

\* the rows add_attendance has written when its statement number fail_at
\* raises: statement 1 inserts the attendance, statement 1 + i its box i
Written_add_attendance_atts(d, fail_at) ==
    IF fail_at >= 2 THEN Repo_add_attendance_atts(d) ELSE atts

Written_add_attendance_boxes(d, fail_at) ==
    IF fail_at >= 3 /\ d.model_used = "breast"
    THEN boxes \o BoxRows(nextAtt + 1, SubSeq(d.bounding_boxes, 1, fail_at - 2))
    ELSE boxes

\* the number of statements add_attendance runs for the payload
Statements_add_attendance(p) ==
    1 + (IF p.model_used = "breast" THEN Len(p.bounding_boxes) ELSE 0)

\* POST /api/attendances/ when statement fail_at of the insert raises (the
\* connection drops, the database refuses the row): added: False, 500
AddAttendanceFailing(api_key, auth, p, fail_at) ==
    LET g == verify_request(Path_attendances, api_key, auth)
        c == Ctl_add_attendance(g, p)
        d == Svc_add_attendance_data(p, g.user.user_id)
    IN  /\ nextAtt < MaxAtts
        /\ c.invoked /\ c.status = 201
        /\ fail_at \in 1..Statements_add_attendance(p)
        /\ atts' = transaction_outcome(atts, Written_add_attendance_atts(d, fail_at), TRUE)
        /\ boxes' = transaction_outcome(boxes, Written_add_attendance_boxes(d, fail_at), TRUE)
        /\ nextAtt' = IF nextAtt + 1 \in DOMAIN atts' THEN nextAtt + 1 ELSE nextAtt
        /\ last' = AddAttendanceLast(api_key, auth, p, g, Resp(500, 500, TRUE, {}))
        /\ UNCHANGED <<users, units, nextUser, nextUnit, tokens, expired, inflight>>

\* Bounding boxes: professionals create attendances and replace their boxes.
NextBoxes ==
    \/ EnsureRoot(API_KEY, <<>>)
    \/ \E k \in 1..MaxTokens, u \in DOMAIN users :
           Login(API_KEY, k, users[u].email, PasswordOf(u))
    \/ \E c \in Callers, p \in NewProfessionalInputs : AddUser(API_KEY, c, p)
    \/ \E a \in Administrators, p \in CreateHealthUnitInputs : ProvisionHealthUnit(a, p)
    \/ \E c \in Callers, p \in BoxAttendanceInputs : AddAttendance(API_KEY, c, p)
    \/ \E c \in Callers, p \in BoxAttendanceInputs, f \in 1..3 :
           AddAttendanceFailing(API_KEY, c, p, f)
    \/ \E c \in Callers, id \in 1..MaxAtts, d \in BoxUpdateInputs :
           UpdateAttendance(API_KEY, c, id, d)
    \/ \E c \in Callers, id \in 1..MaxAtts : GetAttendanceById(API_KEY, c, id)
    \/ \E c \in Callers, id \in 1..MaxAtts : DeleteAttendance(API_KEY, c, id)

SpecBoxes == Init /\ [][NextBoxes]_vars

\* C20: an update_attendance of a breast attendance by a permitted caller
\* that carries a list of M valid bounding boxes, alone or with other fields,
\* succeeds, and afterwards the attendance has exactly those M boxes.
C20_Step ==
    LET c == last'.gate.user
        t == last'.target
    IN  (/\ last'.op = "update_attendance"
         /\ last'.gate.attached
         /\ FreshCaller(c)
         /\ t \in DOMAIN atts
         /\ atts[t].model_used = "breast"
         /\ \/ c.user_id = atts[t].professional_id /\ c.admin_id = atts[t].admin_id
            \/ c.profile = "administrator" /\ c.user_id = atts[t].admin_id
         /\ IsSet(last'.bounding_boxes))
        => /\ last'.resp.status = 200
           /\ BoxesOf(boxes', t) = Get(last'.bounding_boxes)

C20_BoxesReplaced == [][C20_Step]_vars

\* the number of times box b occurs in the sequence bs
RECURSIVE BoxCount(_, _)
BoxCount(bs, b) ==
    IF bs = <<>> THEN 0
    ELSE (IF Head(bs) = b THEN 1 ELSE 0) + BoxCount(Tail(bs), b)

\* the same boxes, in whatever order
SameBoxes(as, bs) ==
    /\ Len(as) = Len(bs)
    /\ \A i \in 1..Len(as) : BoxCount(as, as[i]) = BoxCount(bs, as[i])

C21_Step ==
    last'.op = "add_attendance" =>
        /\ (last'.resp.status = 201 /\ last'.model_used = "breast") =>
              \A id \in 1..MaxAtts :
                  id = nextAtt + 1 =>
                      /\ id \in DOMAIN atts'
                      /\ SameBoxes(Repo_attendance_boxes(id)', last'.bounding_boxes)
        /\ last'.resp.status # 201 => (atts' = atts /\ boxes' = boxes)

\* C21: a breast attendance created with N bounding boxes is fetched by id
\* with exactly those N boxes, in whatever order; a creation that fails,
\* part-way included, stores neither the attendance nor any of its boxes.
C21_CreatedBoxesRoundTrip == [][C21_Step]_vars

\* a breast attendance was just created with two boxes
C21_Witness ==
    /\ last.op = "add_attendance"
    /\ last.resp.status = 201
    /\ last.model_used = "breast"
    /\ Len(last.bounding_boxes) = 2
    /\ Len(Repo_attendance_boxes(nextAtt)) = 2

\* C22: every persisted bounding box belongs to an attendance that exists and
\* whose model_used is breast: an attendance added for another model and an
\* update of such an attendance store no box, and delete_attendance leaves no
\* box of the deleted attendance behind.
C22_BoxesBelongToBreastAttendance ==
    \A i \in 1..Len(boxes) :
        /\ boxes[i].attendance_id \in DOMAIN atts
        /\ atts[boxes[i].attendance_id].model_used = "breast"

\* an update that carries boxes was accepted for an attendance of another
\* model, and no box is stored
C22_Witness ==
    /\ last.op = "update_attendance"
    /\ last.resp.status = 200
    /\ IsSet(last.bounding_boxes)
    /\ Get(last.bounding_boxes) # <<>>
    /\ last.target \in DOMAIN atts
    /\ atts[last.target].model_used # "breast"
    /\ boxes = <<>>

\* ---------------------------------------------------- concurrent add_user
MaxInflight == 2

\* the record of an add_user request at one of its steps: the record of a
\* request and the email and the profile of its body
AddUserLast(op, auth, p, g, r) ==
    [op |-> op, path |-> Path_users, api_key |-> API_KEY, auth |-> auth,
     target |-> 0, gate |-> g, resp |-> r, email |-> p.email,
     profile |-> p.profile]

\* POST /api/users/ up to the await of user_repository.add_user: the request
\* is answered when the gate, the controller or a check of the use-case
\* refuses it, else it has read that no user holds the email and is suspended
\* before its INSERT
AddUserBegin(auth, p) ==
    LET g == verify_request(Path_users, API_KEY, auth)
        r == Ctl_add_user(g, p)
        passed == r.invoked /\ r.status = 201
    IN  /\ Cardinality(inflight) < MaxInflight
        /\ inflight' = IF passed
                       THEN inflight \cup {[auth |-> auth, gate |-> g, payload |-> p]}
                       ELSE inflight
        /\ last' = IF passed
                   THEN AddUserLast("add_user_checked", auth, p, g, Resp(0, 0, TRUE, {}))
                   ELSE AddUserLast("add_user", auth, p, g, r)
        /\ UNCHANGED <<dbvars, tokens, expired>>

\* the INSERT of a suspended add_user and its answer: 201, or 500 when the
\* insert raised (added: False)
AddUserCommit(f) ==
    LET p   == f.payload
        row == UserRow(p.email, hash_password(p.password), p.profile,
                       p.admin_id, p.status)
        ok  == Repo_add_user_ok(row)
    IN  /\ f \in inflight
        /\ nextUser < MaxUsers
        /\ inflight' = inflight \ {f}
        /\ users' = IF ok THEN Repo_add_user(row) ELSE users
        /\ nextUser' = IF ok THEN nextUser + 1 ELSE nextUser
        /\ last' = AddUserLast("add_user_insert", f.auth, p, f.gate,
                               IF ok THEN Resp(201, 201, TRUE, {})
                               ELSE Resp(500, 500, TRUE, {}))
        /\ UNCHANGED <<units, atts, boxes, nextUnit, nextAtt, tokens, expired>>

RaceEmails == {"a@x", USER_EMAIL_ROOT}

\* POST /api/users/ payloads of requests that race for an email
RaceUserInputs ==
    [full_name : {TRUE},
     email     : RaceEmails,
     password  : {"pw"},
     profile   : {"professional", "nurse"},
     admin_id  : {1},
     status    : {"active"}]

\* PUT /api/users/{id} payloads that give the user another email
EmailUpdateInputs(id) ==
    [full_name : {TRUE},
     email     : {Some(e) : e \in RaceEmails \cup {"b@x"}},
     profile   : {Some(users[id].profile)},
     admin_id  : {Some(users[id].admin_id)},
     status    : {None}]

\* Emails: add_user requests suspended between their look-up and their
\* insert, with other add_user requests, update_user and ensure_root_user in
\* between.
NextRace ==
    \/ EnsureRoot(API_KEY, <<>>)
    \/ \E k \in 1..MaxTokens, u \in DOMAIN users :
           Login(API_KEY, k, users[u].email, PasswordOf(u))
    \/ \E c \in Callers, p \in RaceUserInputs : AddUserBegin(c, p)
    \/ \E f \in inflight : AddUserCommit(f)
    \/ \E c \in Callers, id \in DOMAIN users :
           \E d \in EmailUpdateInputs(id) : UpdateUser(API_KEY, c, id, d)

SpecRace == Init /\ [][NextRace]_vars

C23_Step ==
    /\ users_email_unique(users')
    /\ (/\ last'.op \in {"add_user", "add_user_checked"}
        /\ last'.resp.invoked
        /\ last'.profile \in valid_profiles
        /\ Repo_get_user_by_email(last'.email) # NULL)
       => /\ last'.op = "add_user"
          /\ last'.resp.status = 409
          /\ users' = users /\ inflight' = inflight

RootUsers(table) == {u \in DOMAIN table : table[u].email = USER_EMAIL_ROOT}

C24_Step ==
    last'.op = "ensure_root" =>
        /\ Cardinality(RootUsers(users')) = 1
        /\ RootUsers(users) # {} =>
              /\ users' = users
              /\ last'.resp.status = 200 /\ last'.resp.http = 200
        /\ USER_ROOT_PROFILE \notin valid_profiles => last'.resp.http >= 500

\* C24: ensure_root_user is idempotent: when a user with the root email
\* exists the invocation writes nothing and answers with success, not with an
\* error; after every invocation exactly one user holds the root email; with
\* a root profile that is not a valid profile it fails as a server error.
C24_EnsureRootIdempotent == [][C24_Step]_vars

\* the header carries a token that verifies
TokenVerifies(auth) ==
    /\ auth # <<>>
    /\ extract_token(auth).ok
    /\ decode_token(extract_token(auth).text).kind = "ok"

\* every role check that applies to the path passes for the claims
RoleChecksPass(path, claims) ==
    /\ is_admin_route(path) => claims.profile = "administrator"
    /\ is_professional_route(path) => claims.profile = "professional"

\* C25: every run of the gate ends in one terminal state, Admitted or
\* Rejected, decided by the first step that fails in the order API key,
\* public path, token extraction, token verification, role checks; the claims
\* are attached exactly when the key is valid, the path is not public, the
\* token verified and the role checks passed; on a public path a valid key is
\* admitted without identity whatever the Authorization header holds.
C25_GateOrder ==
    last.op \in GatedOps =>
        LET g      == last.gate
            keyOk  == last.api_key = API_KEY
            pub    == is_public_path(last.path)
            tokOk  == TokenVerifies(last.auth)
            claims == CallerClaims(last.auth)
            roleOk == RoleChecksPass(last.path, claims)
        IN  /\ g.status \in {0, 400, 401, 403}
            /\ g.attached => g.status = 0
            /\ last.api_key = "" => g.status = 400
            /\ (last.api_key # "" /\ ~keyOk) => g.status = 403
            /\ (keyOk /\ pub) => g = Admitted(FALSE, NoClaims)
            /\ (keyOk /\ ~pub /\ ~tokOk) => g.status = 401
            /\ (keyOk /\ ~pub /\ tokOk /\ ~roleOk) => g.status = 403
            /\ g.attached <=> (keyOk /\ ~pub /\ tokOk /\ roleOk)
            /\ g.attached => g.user = claims

\* a request with the key and a verified token was stopped by the last step,
\* the role check
C25_Witness ==
    /\ last.op \in GatedOps
    /\ last.api_key = API_KEY
    /\ TokenVerifies(last.auth)
    /\ last.gate.reason = "ProfessionalOnly"
    /\ ~last.resp.invoked

UserByIdOps == {"get_user_by_id", "update_user", "delete_user"}

C26_Step ==
    (/\ last'.op \in UserByIdOps
     /\ last'.gate.attached)
    => /\ last'.target \notin DOMAIN users => last'.resp.status = 404
       /\ last'.resp.status \in {400, 422} =>
             \/ last'.gate.user.profile = "administrator"
             \/ last'.gate.user.user_id = last'.target

\* C26: an operation that addresses a user by id checks existence, then
\* permission, then the fields: for a target that does not exist the answer is
\* 404 whatever the caller's profile, and a caller who is not permitted on an
\* existing target never gets a validation error (400/422).
C26_ExistenceBeforePermission == [][C26_Step]_vars

C27_Step ==
    LET c == last'.gate.user
        t == last'.target
    IN  (/\ last'.op = "update_attendance"
         /\ last'.gate.attached
         /\ FreshCaller(c)
         /\ t \in DOMAIN atts
         /\ \/ c.user_id = atts[t].professional_id
            \/ c.profile = "administrator"
         /\ IsSet(last'.bounding_boxes)
         /\ \/ atts[t].model_used # "breast" /\ last'.model_used # Some("breast")
            \/ IsSet(last'.model_used) /\ Get(last'.model_used) # "breast")
        => /\ last'.resp.status = 400
           /\ atts' = atts /\ boxes' = boxes

\* C27: an update that carries bounding_boxes for a stored attendance of
\* another model than breast is answered 400 and changes nothing, unless the
\* same update sets model_used to breast; an update that carries
\* bounding_boxes together with a model_used other than breast is rejected
\* too.
C27_BoxesOnlyForBreast == [][C27_Step]_vars

\* ------------------------------------------- update_attendance, statement
\* by statement
\* the statements the transaction of update_attendance runs after its SELECT:
\* the UPDATE of the row, then for a breast record with bounding_boxes the
\* DELETE of its boxes and one INSERT per box
Statements_update_attendance(id, d) ==
    1 + (IF atts[id].model_used = "breast" /\ IsSet(d.bounding_boxes)
         THEN 1 + Len(Get(d.bounding_boxes)) ELSE 0)

\* the record of an update_attendance request at one of its steps; done is
\* the number of statements the transaction has run
UpdateAttendanceStepLast(op, f, r) ==
    [op |-> op, path |-> Path_attendance(f.id), api_key |-> API_KEY,
     auth |-> f.auth, target |-> f.id, gate |-> f.gate, resp |-> r,
     bounding_boxes |-> f.payload.bounding_boxes,
     model_used |-> f.payload.model_used, done |-> f.done]

\* PUT /api/attendances/{id} up to the UPDATE of the row: the use-case let the
\* request through, the transaction is open and holds the row it wrote and,
\* untouched so far, the boxes of the attendance; nothing is committed, and
\* the row is locked against other writers until the transaction ends
UpdateAttendanceBegin(auth, id, d) ==
    LET g == verify_request(Path_attendance(id), API_KEY, auth)
        r == Ctl_update_attendance(g, id, d)
        f == [id |-> id, auth |-> auth, gate |-> g, payload |-> d, done |-> 1,
              row |-> Repo_update_attendance_atts(id, d)[id],
              boxes |-> BoxesOf(boxes, id)]
    IN  /\ inflight = {}
        /\ r.invoked /\ r.status = 200
        /\ inflight' = {f}
        /\ last' = UpdateAttendanceStepLast("update_attendance_open", f, Resp(0, 0, TRUE, {}))
        /\ UNCHANGED <<dbvars, tokens, expired>>

\* the next statement of the open transaction: the DELETE of the boxes, then
\* the INSERT of each box of the payload
UpdateAttendanceStep(f) ==
    LET bs == Get(f.payload.bounding_boxes)
        g  == [f EXCEPT !.done = @ + 1,
                        !.boxes = IF f.done = 1 THEN <<>>
                                  ELSE Append(@, bs[f.done - 1])]
    IN  /\ f \in inflight
        /\ f.done < Statements_update_attendance(f.id, f.payload)
        /\ inflight' = (inflight \ {f}) \cup {g}
        /\ last' = UpdateAttendanceStepLast("update_attendance_step", g, Resp(0, 0, TRUE, {}))
        /\ UNCHANGED <<dbvars, tokens, expired>>

\* the tables as the statements run so far wrote them
Written_update_attendance_atts(f) == [atts EXCEPT ![f.id] = f.row]

Written_update_attendance_boxes(f) ==
    BoxesWithout(boxes, f.id) \o BoxRows(f.id, f.boxes)

\* the block of the transaction is left after its last statement: updated:
\* True, 200
UpdateAttendanceCommit(f) ==
    /\ f \in inflight
    /\ f.done = Statements_update_attendance(f.id, f.payload)
    /\ atts' = transaction_outcome(atts, Written_update_attendance_atts(f), FALSE)
    /\ boxes' = transaction_outcome(boxes, Written_update_attendance_boxes(f), FALSE)
    /\ inflight' = inflight \ {f}
    /\ last' = UpdateAttendanceStepLast("update_attendance", f, Resp(200, 200, TRUE, {}))
    /\ UNCHANGED <<users, units, nextUser, nextUnit, nextAtt, tokens, expired>>

\* the transaction ends before its last statement: a statement raises, the
\* connection is lost or the process dies; updated: False, 500 when an
\* answer is still given
UpdateAttendanceCrash(f) ==
    /\ f \in inflight
    /\ atts' = transaction_outcome(atts, Written_update_attendance_atts(f), TRUE)
    /\ boxes' = transaction_outcome(boxes, Written_update_attendance_boxes(f), TRUE)
    /\ inflight' = inflight \ {f}
    /\ last' = UpdateAttendanceStepLast("update_attendance_failed", f, Resp(500, 500, TRUE, {}))
    /\ UNCHANGED <<users, units, nextUser, nextUnit, nextAtt, tokens, expired>>

\* a breast attendance is created with the result "r1" and the boxes Box1 and
\* Box2; an update sets the result "r2" and the one box Box2
TxAttendanceInputs ==
    {p \in BoxAttendanceInputs :
        p.model_used = "breast" /\ p.bounding_boxes = <<Box1, Box2>>}

TxUpdateInputs ==
    {d \in BoxUpdateInputs :
        /\ d.model_used = None
        /\ d.model_result = Some("r2")
        /\ d.bounding_boxes = Some(<<Box2>>)}

\* Transactions: an update_attendance runs statement by statement, with
\* fetches of the attendance between any two of its statements and with its
\* end before the last one; other writers of the attendance wait for the row.
NextTx ==
    \/ EnsureRoot(API_KEY, <<>>)
    \/ \E k \in 1..MaxTokens, u \in DOMAIN users :
           Login(API_KEY, k, users[u].email, PasswordOf(u))
    \/ \E c \in Callers, p \in NewProfessionalInputs : AddUser(API_KEY, c, p)
    \/ \E a \in Administrators, p \in CreateHealthUnitInputs : ProvisionHealthUnit(a, p)
    \/ \E c \in Callers, p \in TxAttendanceInputs : AddAttendance(API_KEY, c, p)
    \/ \E c \in Callers, id \in DOMAIN atts, d \in TxUpdateInputs :
           UpdateAttendanceBegin(c, id, d)
    \/ \E f \in inflight : UpdateAttendanceStep(f)
    \/ \E f \in inflight : UpdateAttendanceCommit(f)
    \/ \E f \in inflight : UpdateAttendanceCrash(f)
    \/ \E c \in Callers, id \in 1..MaxAtts : GetAttendanceById(API_KEY, c, id)
    \/ \E c \in Callers, id \in 1..MaxAtts :
           inflight = {} /\ DeleteAttendance(API_KEY, c, id)

SpecTx == Init /\ [][NextTx]_vars

\* the row of the attendance and its boxes are those one request wrote
RowAndBoxesAgree(id) ==
    /\ atts[id].model_result = "r1" => BoxesOf(boxes, id) = <<Box1, Box2>>
    /\ atts[id].model_result = "r2" => BoxesOf(boxes, id) = <<Box2>>

C28_Step ==
    /\ \A id \in DOMAIN atts' : RowAndBoxesAgree(id)'
    /\ last'.op \in {"update_attendance_open", "update_attendance_step",
                     "update_attendance_failed"}
       => (atts' = atts /\ boxes' = boxes)
    /\ (last'.op = "get_attendance_by_id" /\ last'.target \in last'.resp.ids)
       => last'.bounding_boxes =
             (IF atts[last'.target].model_result = "r2"
              THEN <<Box2>> ELSE <<Box1, Box2>>)

StatusUpdateInputs(id) ==
    [full_name : {TRUE},
     email     : {Some(users[id].email)},
     profile   : {Some(users[id].profile)},
     admin_id  : {IF users[id].admin_id = NULL THEN None ELSE Some(users[id].admin_id)},
     status    : {Some("inactive"), Some("active")}]

\* Deactivation: users log in, are deactivated (by themselves or by an
\* administrator) and reactivated, and go on using the token they hold until
\* it expires.
NextStatus ==
    \/ EnsureRoot(API_KEY, <<>>)
    \/ \E k \in 1..MaxTokens, u \in DOMAIN users, pw \in {"pw", "rootpw"} :
           Login(API_KEY, k, users[u].email, pw)
    \/ \E k \in 1..MaxTokens : Expire(k)
    \/ \E c \in Callers, p \in NewProfessionalInputs : AddUser(API_KEY, c, p)
    \/ \E c \in Callers, id \in DOMAIN users :
           \E d \in StatusUpdateInputs(id) : UpdateUser(API_KEY, c, id, d)
    \/ \E c \in Callers, id \in 1..MaxUsers : GetUserById(API_KEY, c, id)

SpecStatus == Init /\ [][NextStatus]_vars

C29_Step ==
    /\ (/\ last'.op = "login"
        /\ last'.target \in DOMAIN users
        /\ users[last'.target].status = "inactive")
       => /\ last'.resp.status = 403
          /\ tokens' = tokens /\ expired' = expired
    /\ (/\ last'.op \in {"add_user", "update_user", "get_user_by_id"}
        /\ last'.api_key = API_KEY
        /\ TokenVerifies(last'.auth))
       => /\ last'.gate.attached
          /\ last'.gate.user = CallerClaims(last'.auth)
    /\ (/\ last'.op \in {"add_user", "update_user", "get_user_by_id"}
        /\ last'.api_key = API_KEY
        /\ \E k \in expired : last'.auth = Bearer(k))
       => (last'.gate.status = 401 /\ ~last'.resp.invoked)

\* C29: once a user's status is inactive every login of that user is answered
\* 403 and issues no token, whatever the password; a token issued before is
\* still admitted by the gate until it expires, for the gate decides on the
\* API key, the path and the token and never reads the user's row.
C29_InactiveLoginOnly == [][C29_Step]_vars

\* a request is admitted with the token of a user whose status is inactive
C29_Witness ==
    /\ last.op = "get_user_by_id"
    /\ last.gate.attached
    /\ last.gate.user.user_id \in DOMAIN users
    /\ users[last.gate.user.user_id].status = "inactive"

C30_Step ==
    (/\ last'.op \in HttpOps \cup UserByIdOps
     /\ last'.gate.attached
     /\ last'.gate.user.profile = "professional")
    => \A u \in DOMAIN users \cap DOMAIN users' :
          /\ users[u].profile = "professional" => users'[u].profile # "administrator"
          /\ users'[u].admin_id = users[u].admin_id

\* C30: no request made with a professional's token turns a professional
\* into an administrator or changes the admin_id of any user.
C30_NoSelfPromotion == [][C30_Step]_vars

====
